---- MODULE Spec2Model ----
(***************************************************************************)
(* Verification model of the skytable-go client (satvik007/skytable-go):   *)
(* the base client's single-command and pipelined request paths            *)
(* (skytable.go), the error classification (error.go), the option          *)
(* normalisation (options.go) and the Pipeline queue (pipeline.go).        *)
(***************************************************************************)
EXTENDS Integers, Sequences, FiniteSets, TLC

(***************************************************************************)
(* Bounds of the model.                                                    *)
(***************************************************************************)
\* largest MaxRetries value a caller configures (-1, or one of 1..MaxRetriesCfg)
MaxRetriesCfg == 1
\* number of commands a pipeline queues at most
MaxCmds == 2
\* number of Process / Exec calls issued on one client
MaxCalls == 1
\* goroutines that share one Pipeline
NumGoroutines == 2
\* commands queued on the shared Pipeline
MaxQueued == 2
\* hooks registered on one client
MaxHooks == 2
\* clients that share hooks: the parent and its clones
MaxClients == 3
\* AddHook calls over all of them
MaxHookAdds == 5
\* connections the pool may dial
MaxConns == 2
\* checkouts over all connections
MaxCheckouts == 2
\* size of the buffered reader's buffer, in bytes
BufSize == 4
\* longest raw line on the stream, without its terminator
MaxLine == 6
\* highest status code on the stream
MaxStatusCode == 13
\* most elements of an array on the stream
MaxArr == 2
\* reads from one stream
MaxReads == 2
\* highest MaxRetries a client is configured with
MaxRawRetries == 3
\* longest timeout a command or the options carry, in seconds
MaxTimeout == 7
\* NewClient calls that are handed the same *Options
MaxNewClients == 2
\* most sub-actions handed to Lget
MaxSubActions == 3
\* Close calls made on one client
MaxCloses == 2

(***************************************************************************)
(* Errors.  An error value is a string naming it; NIL is Go's nil error.   *)
(***************************************************************************)
NIL == "nil"

\* internal/proto: CodeToErrorMap, the typed server errors by status code
MinTypedCode == 1
MaxTypedCode == 11
CodeToErrorMap ==
  [c \in MinTypedCode..MaxTypedCode |->
     CASE c = 1  -> "Nil"
       [] c = 2  -> "OverwriteError"
       [] c = 3  -> "ActionError"
       [] c = 4  -> "PacketError"
       [] c = 5  -> "ServerError"
       [] c = 6  -> "OtherError"
       [] c = 7  -> "WrongTypeError"
       [] c = 8  -> "UnknownDataTypeError"
       [] c = 9  -> "EncodingError"
       [] c = 10 -> "BadCredentials"
       [] c = 11 -> "AuthnRealmError"]

\* values of Go type proto.SkytableError a reply can produce
SkytableErrors == {CodeToErrorMap[c] : c \in MinTypedCode..MaxTypedCode}

\* errors with a Timeout() bool method (net.Error values; context.DeadlineExceeded
\* is a deadlineExceededError, which has one too)
TimeoutErrors == {"netErr", "timeoutErr", "DeadlineExceeded"}

\* Timeout() of such an error
Timeout(err) == err \in {"timeoutErr", "DeadlineExceeded"}

\* The first word of err.Error(): every typed server error reads "skytable: ..."
ErrorFirstWord(err) == IF err \in SkytableErrors THEN "skytable:" ELSE err

\* every error value of the model
Errors ==
  SkytableErrors \cup TimeoutErrors \cup
  {"EOF", "UnexpectedEOF", "Canceled", "protoErr", "unknownStatus",
   "limiterErr", "ErrClosed", "encodeErr"}

(***************************************************************************)
(* error.go                                                                *)
(***************************************************************************)
\* shouldRetry without its case for nil and the context's errors and with
\* "retry" as the answer for errors that are no net.Error
shouldRetry_NoSwitch(err, retryTimeout) ==
  IF err \in {"EOF", "UnexpectedEOF"} THEN TRUE
  ELSE IF err = NIL THEN FALSE
  ELSE IF err \in TimeoutErrors
       THEN (IF Timeout(err) THEN retryTimeout ELSE TRUE)
       ELSE TRUE

\* shouldRetry(err, retryTimeout)
shouldRetry(err, retryTimeout) ==
  IF err \in {"EOF", "UnexpectedEOF"} THEN TRUE
  ELSE IF err \in {NIL, "Canceled", "DeadlineExceeded"} THEN FALSE
  ELSE IF err \in TimeoutErrors
       THEN (IF Timeout(err) THEN retryTimeout ELSE TRUE)
       ELSE FALSE

isSkytableError(err) == err \in SkytableErrors

isReadOnlyError(err) == ErrorFirstWord(err) = "READONLY"

\* "MOVED <...> <addr>": prefix and suffix test on the error text
isMovedSameConnAddr(err) == ErrorFirstWord(err) = "MOVED"

\* isBadConn without its case for typed server errors
isBadConn_TypedBad(err, allowTimeout) ==
  IF err = NIL THEN FALSE
  ELSE IF err \in {"Canceled", "DeadlineExceeded"} THEN TRUE
  ELSE IF allowTimeout /\ err \in TimeoutErrors /\ Timeout(err) THEN FALSE
  ELSE TRUE

\* isBadConn that takes the context's errors for harmless
isBadConn_CtxGood(err, allowTimeout) ==
  IF err = NIL THEN FALSE
  ELSE IF err \in {"Canceled", "DeadlineExceeded"} THEN FALSE
  ELSE IF isSkytableError(err)
       THEN isReadOnlyError(err) \/ isMovedSameConnAddr(err)
  ELSE IF allowTimeout /\ err \in TimeoutErrors /\ Timeout(err) THEN FALSE
  ELSE TRUE

\* isBadConn(err, allowTimeout, addr)
isBadConn(err, allowTimeout) ==
  IF err = NIL THEN FALSE
  ELSE IF err \in {"Canceled", "DeadlineExceeded"} THEN TRUE
  ELSE IF isSkytableError(err)
       THEN isReadOnlyError(err) \/ isMovedSameConnAddr(err)
  ELSE IF allowTimeout /\ err \in TimeoutErrors /\ Timeout(err) THEN FALSE
  ELSE TRUE

(***************************************************************************)
(* options.go: Options.init, the MaxRetries normalisation                  *)
(***************************************************************************)
DefaultMaxRetries == 3

\* an init that leaves MaxRetries as it was given
initMaxRetries_Keep(raw) == raw

initMaxRetries(raw) ==
  IF raw = -1 THEN 0
  ELSE IF raw = 0 THEN DefaultMaxRetries
  ELSE raw


(***************************************************************************)
(* State.                                                                  *)
(***************************************************************************)
VARIABLES
  opt,          \* the client's Options after init(): [MaxRetries, Limiter]
  closed,       \* the pool's close flag
  closes,       \* what the Close calls made so far returned, in order
  idle,         \* the pool's idle connections, oldest first
  live,         \* every connection the pool knows (idle or checked out), by name
  inited,       \* connections whose Inited flag is set
  queue,        \* Pipeline.cmds, the queued commands
  nCalls,       \* calls completed on this client
  pc,           \* position of the caller inside Process / Exec
  mode,         \* "single" (baseClient.process) or "pipe" (processPipeline)
  ctxState,     \* the call's context: "none" (Done() = nil), "live", "canceled", "deadline"
  cmdRT,        \* whether cmd.readTimeout() is non-nil
  cmds,         \* the commands of the call: [id, err, val]
  attempt,      \* the retry loop's counter
  lastErr,      \* the retry loop's lastErr
  ret,          \* the error the call returned
  retCmds,      \* the commands Exec returned
  cn,           \* the connection of the running attempt, 0 when none
  netClosed,    \* cn.Close() was called on the attempt's connection
  wpc,          \* position of fn (the write/read closure, a goroutine when ctx can be done)
  werr,         \* the error fn returned
  ri,           \* pipelineReadCmds: index of the command whose reply is read next
  rdPos,        \* reply elements consumed from the connection in this attempt
  cnt,          \* the reply metaframe's count, -1 before it is read
  retryTimeout, \* _process: the retryTimeout flag
  canRetry,     \* _generalProcessPipeline: canRetry
  aerr,         \* the error of the attempt that ended last
  \* history of the running call, kept for the properties
  nAttempts,    \* number of _process / pipeline attempts started
  prevCn,       \* connection of the previous attempt, 0 when it had none
  prevErr,      \* error of the previous attempt
  rel,          \* releases of the attempt that ended last: [cn, how, err, by]
  writeOK,      \* the attempt's write succeeded
  consumed,     \* part of the attempt's reply was consumed
  netTouched,   \* a dial, write or read was performed in this call
  startDone,    \* the call started with its context already cancelled
  doneInFlight, \* the context became done while the attempt's fn was writing or reading
  tookDone,     \* withConn's select took the <-done branch in this attempt
  limRejected,  \* the Limiter rejected an attempt of this call
  qAtExec,      \* the queue as Exec found it
  lim,          \* the Limiter's calls in this attempt: [op, err], in order
  got           \* the reply elements consumed in this attempt, in order

\* One Pipeline shared by several goroutines (pipeline.go).
VARIABLES
  pmu,          \* Pipeline.mu: the goroutine that holds it, 0 when free
  pq,           \* Pipeline.cmds, as command ids
  ppc,          \* each goroutine's position in its Pipeline call
  ptmp,         \* each goroutine's local: the slice append read, Exec's cmds
  pid,          \* each goroutine's cmd argument, 0 when none
  pbatches,     \* the batches handed to the exec callback so far, in order
  pdisc,        \* the commands Discard dropped
  pnext,        \* the id of the command created next
  pwhen         \* for each command, the goroutines whose Exec held the
                \* mutex when the command's queueing call began

pipeVars == <<pmu, pq, ppc, ptmp, pid, pbatches, pdisc, pnext, pwhen>>

\* One command going through hooks.process (skytable.go).
VARIABLES
  hn,           \* len(c.hooks.hooks) of the Client
  hroute,       \* who processes the command: "client", "conn" or "init"
  hpc,          \* position inside hooks.process
  hidx,         \* hookIndex
  hret,         \* retErr
  hcmdErr,      \* cmd.Err()
  hsets,        \* the values cmd.SetErr was called with in this call, in order
  htrace        \* the calls made so far: [ev, hook, res], in order

hookVars == <<hn, hroute, hpc, hidx, hret, hcmdErr, hsets, htrace>>

\* A client and its clones (Client.clone, WithTimeout), with their hooks slices.
VARIABLES
  carr,         \* the backing arrays allocated so far, each a sequence of hooks
  cl,           \* the clients' hooks.hooks slice headers: [arr, len, cap]
  cview,        \* for each client, the hooks it was given or added itself
  cadds         \* AddHook calls so far

cloneVars == <<carr, cl, cview, cadds>>

\* Connections on their way through getConn, initConn and back to the pool.
VARIABLES
  iopt,         \* Options: Username, Token, CredentialsProvider, Table, OnConnect
  icn,          \* per connection: [at, Inited, user, token, err, res]; err is
                \* initConn's error, res what _getConn returned for it
  ilog,         \* per connection: what was sent on it or run with it, in order
  iinits,       \* per connection: how often initConn went past its Inited check
  icount        \* per connection: checkouts so far

initVars == <<iopt, icn, ilog, iinits, icount>>

\* A proto.Reader over a stream of reply elements.
VARIABLES
  rin,          \* the elements that were put on the stream
  rrest,        \* the bytes not yet read
  rhist         \* the reads so far: [op, val, err]

readerVars == <<rin, rrest, rhist>>

\* Options from the caller's hands through Options.init into process.
VARIABLES
  oraw,         \* MaxRetries as the caller configured it
  omax,         \* opt.MaxRetries
  opc,          \* "new", "ready" (after Options.init), "loop", "done"
  oatt,         \* process: attempt
  otried        \* the errors of the attempts of the command so far

optionVars == <<oraw, omax, opc, oatt, otried>>

\* The read timeout of a single command, from cmd and Options to the deadline.
VARIABLES
  tcmd,         \* cmd.readTimeout(): [set, d], set FALSE for nil, d in seconds
  tread,        \* opt.ReadTimeout in seconds, 0 for none
  tpc,          \* "new", "timeout" (cmdTimeout returned), "deadline" (set)
  tout,         \* what cmdTimeout returned
  tdl           \* the connection's read deadline: [set, d], d seconds from now

timeoutVars == <<tcmd, tread, tpc, tout, tdl>>

\* One *Options value, handed to NewClient again and again.
VARIABLES
  nopt,         \* the Options the pointer refers to: durations in seconds,
                \* backoffs in milliseconds
  nfirst,       \* the Options as the first NewClient left them
  ninits        \* NewClient calls made with the pointer

normVars == <<nopt, nfirst, ninits>>

\* One call of Lget.
VARIABLES
  lkey,         \* the key argument
  lsubs,        \* the subActions arguments, in order
  lpc,          \* "new", "done" (Lget returned or panicked)
  lres          \* the outcome: [panicked, args, processed]

lgetVars == <<lkey, lsubs, lpc, lres>>
auxVars  ==
  <<pipeVars, hookVars, cloneVars, initVars, readerVars, optionVars,
    timeoutVars,
    normVars,
    lgetVars>>

cfgVars   == <<opt, closes>>
poolVars  == <<closed, idle, live, inited>>
callVars  == <<pc, mode, ctxState, cmdRT, cmds, attempt, lastErr, ret, retCmds>>
attVars   == <<cn, netClosed, wpc, werr, ri, rdPos, cnt, retryTimeout, canRetry, aerr>>
histVars  == <<nAttempts, prevCn, prevErr, rel, writeOK, consumed, netTouched,
               startDone, doneInFlight, tookDone, limRejected, qAtExec, got, lim>>
clientVars == <<cfgVars, poolVars, queue, nCalls, callVars, attVars, histVars>>
vars == <<clientVars, auxVars>>

Goroutines == 1..NumGoroutines

\* A Pipeline nobody has used yet.
PipeStart ==
  /\ pmu = 0
  /\ pq = <<>>
  /\ ppc = [g \in Goroutines |-> "idle"]
  /\ ptmp = [g \in Goroutines |-> <<>>]
  /\ pid = [g \in Goroutines |-> 0]
  /\ pbatches = <<>>
  /\ pdisc = {}
  /\ pnext = 1
  /\ pwhen = [i \in 1..MaxQueued |-> {}]

\* A client without hooks and without a command in hooks.process.
HookStart ==
  /\ hn = 0
  /\ hroute = "client"
  /\ hpc = "idle"
  /\ hidx = 0
  /\ hret = NIL
  /\ hcmdErr = NIL
  /\ hsets = <<>>
  /\ htrace = <<>>

\* One client without hooks and without clones.
CloneStart ==
  /\ carr = <<>>
  /\ cl = <<[arr |-> 0, len |-> 0, cap |-> 0]>>
  /\ cview = << <<>> >>
  /\ cadds = 0

Conns == 1..MaxConns

\* No credentials, no table, no OnConnect; nothing dialed yet.
InitConnStart ==
  /\ iopt = [Username |-> "", Token |-> "", CredentialsProvider |-> FALSE,
             Table |-> "", OnConnect |-> FALSE]
  /\ icn = [k \in Conns |-> [at |-> "undialed", Inited |-> FALSE,
                               user |-> "", token |-> "",
                               err |-> NIL, res |-> NIL]]
  /\ ilog = [k \in Conns |-> <<>>]
  /\ iinits = [k \in Conns |-> 0]
  /\ icount = [k \in Conns |-> 0]

\* A reader with nothing to read.
ReaderStart ==
  /\ rin = <<>>
  /\ rrest = <<>>
  /\ rhist = <<>>

\* Options with nothing configured, not yet initialised.
OptionsStart ==
  /\ oraw = 0
  /\ omax = 0
  /\ opc = "new"
  /\ oatt = 0
  /\ otried = <<>>

\* A command without a read timeout of its own, no ReadTimeout, nothing read.
TimeoutStart ==
  /\ tcmd = [set |-> FALSE, d |-> 0]
  /\ tread = 0
  /\ tpc = "new"
  /\ tout = 0
  /\ tdl = [set |-> FALSE, d |-> 0]

\* The zero Options, handed to nobody yet.
ZeroOptions ==
  [MaxRetries |-> 0, ReadTimeout |-> 0, WriteTimeout |-> 0, PoolTimeout |-> 0,
   MinRetryBackoff |-> 0, MaxRetryBackoff |-> 0]

NormStart ==
  /\ nopt = ZeroOptions
  /\ nfirst = ZeroOptions
  /\ ninits = 0

\* Lget not called.
LgetStart ==
  /\ lkey = "k1"
  /\ lsubs = <<>>
  /\ lpc = "new"
  /\ lres = [panicked |-> FALSE, args |-> <<>>, processed |-> FALSE]

\* The components that are not part of the client's call path, at rest.
AuxStart ==
  /\ PipeStart /\ HookStart /\ CloneStart /\ InitConnStart /\ ReaderStart
  /\ OptionsStart /\ TimeoutStart /\ NormStart /\ LgetStart

\* ctx.Err()
CtxErr(c) ==
  CASE c = "canceled" -> "Canceled"
    [] c = "deadline" -> "DeadlineExceeded"
    [] OTHER -> NIL

\* ctx.Done() is a closed channel
CtxIsDone(c) == c \in {"canceled", "deadline"}

NewCmd(id) == [id |-> id, err |-> NIL, val |-> 0]

ClientInit ==
  /\ opt \in [MaxRetries : {initMaxRetries(r) : r \in {-1} \cup 1..MaxRetriesCfg},
              Limiter : BOOLEAN]
  /\ closed = FALSE
  /\ closes = <<>>
  \* newConnPool: the pool is empty, or (MinIdleConns = 1) holds the one
  \* connection it dialed ahead, which no caller has initialised yet
  /\ idle \in {<<>>, <<1>>}
  /\ live = {idle[i] : i \in 1..Len(idle)}
  /\ inited = {}
  /\ queue = <<>>
  /\ nCalls = 0
  /\ pc = "idle"
  /\ mode = "single"
  /\ ctxState = "none"
  /\ cmdRT = FALSE
  /\ cmds = <<>>
  /\ attempt = 0
  /\ lastErr = NIL
  /\ ret = NIL
  /\ retCmds = <<>>
  /\ cn = 0
  /\ netClosed = FALSE
  /\ wpc = "none"
  /\ werr = NIL
  /\ ri = 0
  /\ rdPos = 0
  /\ cnt = -1
  /\ retryTimeout = 1
  /\ canRetry = FALSE
  /\ aerr = NIL
  /\ nAttempts = 0
  /\ prevCn = 0
  /\ prevErr = NIL
  /\ rel = <<>>
  /\ writeOK = FALSE
  /\ consumed = FALSE
  /\ netTouched = FALSE
  /\ startDone = FALSE
  /\ doneInFlight = FALSE
  /\ tookDone = FALSE
  /\ limRejected = FALSE
  /\ lim = <<>>
  /\ qAtExec = <<>>
  /\ got = <<>>

\* NewClient, with everything else at rest
Init == ClientInit /\ AuxStart

\* One client at rest: no retries, no Limiter, an empty pool.
ClientStart ==
  /\ ClientInit
  /\ opt.MaxRetries = initMaxRetries(-1) /\ ~opt.Limiter
  /\ idle = <<>>


(***************************************************************************)
(* What the network and the server can answer.                             *)
(***************************************************************************)
\* errors of a dial
DialErrs == {"netErr", "timeoutErr"}
\* errors of WithWriter: the encoder's, or the socket's
WriteErrs == {"encodeErr", "netErr", "timeoutErr"}
\* transport errors of a read: of a line (bufio's ReadSlice ends a short
\* stream with EOF), and of a payload (io.ReadFull ends one with either EOF)
ReadLineErrs == {"EOF", "netErr", "timeoutErr"}
ReadErrs == ReadLineErrs \cup {"UnexpectedEOF"}
\* errors of the connection's initialisation (AUTH / USE / OnConnect)
InitErrs == {"BadCredentials", "netErr"}
\* status codes the server sends in the model: Nil, the last typed code, the
\* first code outside the table
StatusCodes == {MinTypedCode, MaxTypedCode, MaxTypedCode + 1}
\* a reply element: a value (string, integer, ...) or a status
Elements == {[kind |-> "val", code |-> 0]} \cup
            {[kind |-> "status", code |-> c] : c \in StatusCodes}

\* a readStatus for which every code from 2 on is a typed error
readStatus_AllTyped(val) ==
  IF val = 0 THEN NIL
  ELSE IF val = 1 THEN "Nil"
  ELSE IF val < 12 THEN CodeToErrorMap[val]
  ELSE CodeToErrorMap[MaxTypedCode]

\* Reader.readStatus: the error a status code parses to
readStatus(val) ==
  IF val = 0 THEN NIL
  ELSE IF val = 1 THEN "Nil"
  ELSE IF val < 12 THEN CodeToErrorMap[val]
  ELSE "unknownStatus"

\* cmd.readReply on one whole element: the error it returns
readReply(el) == IF el.kind = "status" THEN readStatus(el.code) ELSE NIL

(***************************************************************************)
(* skytable.go: the pieces of the retry loops, of releaseConn and of the   *)
(* pipeline's result, as operators.                                        *)
(***************************************************************************)
\* the loop condition with one attempt more
loopCond_OffByOne(att, maxRetries) == att <= maxRetries + 1

\* process / _generalProcessPipeline: attempt <= c.opt.MaxRetries
loopCond(att, maxRetries) == att <= maxRetries

\* process: if err == nil || !retry { return err }
processReturns(err, retry) == err = NIL \/ ~retry

\* a retryTimeout that starts cleared
retryTimeoutInit_Zero == 1 - 1

\* _process: retryTimeout := uint32(1)
retryTimeoutInit == 1

\* _process: if cmd.readTimeout() == nil { atomic.StoreUint32(&retryTimeout, 1) }
retryTimeoutStore(old, rt) == IF ~rt THEN 1 ELSE old

\* _generalProcessPipeline: lastErr == nil || !canRetry || !shouldRetry(lastErr, true)
pipelineReturns(err, can) == err = NIL \/ ~can \/ ~shouldRetry(err, TRUE)

\* releaseConn that lets a timed-out connection live
releaseConn_AllowTimeout(err) == IF isBadConn(err, TRUE) THEN "Remove" ELSE "Put"

\* a releaseConn that gives back only the connections it removes
releaseConn_NoPut(err) == IF isBadConn(err, FALSE) THEN "Remove" ELSE "None"

\* releaseConn: Remove when isBadConn(err, false, addr), Put otherwise
releaseConn(err) == IF isBadConn(err, FALSE) THEN "Remove" ELSE "Put"

\* a read loop that stops at any error
readCmdsAborts_OnAnyError(err) == err # NIL

\* pipelineReadCmds: if err != nil && !isSkytableError(err) { return err }
readCmdsAborts(err) == err # NIL /\ ~isSkytableError(err)

\* setCmdsErr(cmds, e): the batch error is put on every command
setCmdsErr(cs, e) == [i \in 1..Len(cs) |-> [cs[i] EXCEPT !.err = e]]

\* cmdsFirstErr(cmds): the error of the first command that has one
cmdsFirstErr(cs) ==
  IF \E i \in 1..Len(cs) : cs[i].err # NIL
  THEN cs[CHOOSE i \in 1..Len(cs) :
            /\ cs[i].err # NIL
            /\ \A j \in 1..(i - 1) : cs[j].err = NIL].err
  ELSE NIL

\* generalProcessPipeline without setCmdsErr
generalProcessPipeline_NoSet(cs, err) ==
  IF err # NIL THEN [cmds |-> cs, err |-> err]
  ELSE [cmds |-> cs, err |-> cmdsFirstErr(cs)]

\* generalProcessPipeline: the commands and the error it leaves
generalProcessPipeline(cs, err) ==
  IF err # NIL THEN [cmds |-> setCmdsErr(cs, err), err |-> err]
  ELSE [cmds |-> cs, err |-> cmdsFirstErr(cs)]

\* hooks.process that forgets cmd.SetErr
hooksProcess_NoSetErr(cs, err) == [cmds |-> cs, err |-> err]

\* hooks.process without hooks: err := fn(ctx, cmd); cmd.SetErr(err); return err
hooksProcess(cs, err) == [cmds |-> [cs EXCEPT ![1].err = err], err |-> err]

\* an Exec that loses the head of the queue
execCmds_DropFirst(q) == Tail(q)

\* Pipeline.Exec: cmds := c.cmds
execCmds(q) == q


\* getConn: c.opt.Limiter.Allow() when a Limiter is configured
limiterAllow(limiter, log, err) ==
  IF limiter THEN Append(log, [op |-> "Allow", err |-> err]) ELSE log

\* a client that never reports to its Limiter
reportResult_Never(limiter, log, err) == log

\* getConn / releaseConn: c.opt.Limiter.ReportResult(err) when a Limiter is
\* configured
reportResult(limiter, log, err) ==
  IF limiter THEN Append(log, [op |-> "ReportResult", err |-> err]) ELSE log

\* getConn when _getConn fails: Allow returned nil, the failure is reported
getConnFailed(limiter, log, err) ==
  reportResult(limiter, limiterAllow(limiter, log, NIL), err)

\* Pipeline.Len()
PipelineLen(q) == Len(q)

\* an Exec that leaves the queue as it was
execRest_Keep(q) == q

\* Pipeline.Exec: c.cmds = nil
execRest(q) == <<>>

(***************************************************************************)
(* The end of a call and of an attempt.                                    *)
(***************************************************************************)
\* The call returns err: Client.Process stores it on the command,
\* Pipeline.Exec returns the commands with generalProcessPipeline's error.
Finish(err, cs) ==
  /\ pc' = "done"
  /\ IF mode = "single"
     THEN LET r == hooksProcess(cs, err) IN
          /\ cmds' = r.cmds
          /\ ret' = r.err
          /\ retCmds' = retCmds
     ELSE LET r == generalProcessPipeline(cs, err) IN
          /\ cmds' = r.cmds
          /\ ret' = r.err
          /\ retCmds' = r.cmds
  /\ UNCHANGED <<attempt, lastErr>>

\* The loop goes on to the next attempt.
Retry(err, cs) ==
  /\ pc' = "loop"
  /\ attempt' = attempt + 1
  /\ lastErr' = err
  /\ cmds' = cs
  /\ UNCHANGED <<ret, retCmds>>

\* An attempt ended with err: return or retry.
Decide(err, cs) ==
  IF mode = "single"
  THEN IF processReturns(err, shouldRetry(err, retryTimeout = 1))
       THEN Finish(err, cs) ELSE Retry(err, cs)
  ELSE IF pipelineReturns(err, canRetry)
       THEN Finish(err, cs) ELSE Retry(err, cs)

(***************************************************************************)
(* Calls: Client.Process, Pipeline.Process / Discard / Exec, Client.Close  *)
(***************************************************************************)
\* the contexts a call is made with
StartCtx == {"none", "live", "canceled"}

StartCall(m, c, rt, cs) ==
  /\ mode' = m
  /\ ctxState' = c
  /\ cmdRT' = rt
  /\ cmds' = cs
  /\ pc' = "loop"
  /\ startDone' = CtxIsDone(c)
  /\ UNCHANGED <<attempt, lastErr, ret, retCmds>>
  /\ UNCHANGED <<cfgVars, auxVars, poolVars, nCalls, attVars>>
  /\ UNCHANGED <<nAttempts, prevCn, prevErr, rel, writeOK, consumed, netTouched,
                 doneInFlight, tookDone, limRejected, got, lim>>

\* Client.Process(ctx, cmd)
ClientProcess ==
  /\ pc = "idle"
  /\ nCalls < MaxCalls
  /\ \E c \in StartCtx, rt \in BOOLEAN : StartCall("single", c, rt, <<NewCmd(1)>>)
  /\ UNCHANGED <<queue, qAtExec>>

\* Pipeline.Process(ctx, cmd): append to the queue
PipelineProcess ==
  /\ pc = "idle"
  /\ Len(queue) < MaxCmds
  /\ queue' = Append(queue, NewCmd(Len(queue) + 1))
  /\ UNCHANGED <<cfgVars, auxVars, poolVars, nCalls, callVars, attVars, histVars>>

\* Pipeline.Discard(): c.cmds = c.cmds[:0]
PipelineDiscard ==
  /\ pc = "idle"
  /\ queue # <<>>
  /\ queue' = <<>>
  /\ UNCHANGED <<cfgVars, auxVars, poolVars, nCalls, callVars, attVars, histVars>>

\* Pipeline.Exec(ctx) on an empty queue: return nil, nil
PipelineExecEmpty ==
  /\ pc = "idle"
  /\ nCalls < MaxCalls
  /\ PipelineLen(queue) = 0
  /\ pc' = "done"
  /\ mode' = "pipe"
  /\ ret' = NIL
  /\ retCmds' = <<>>
  /\ cmds' = <<>>
  /\ UNCHANGED <<ctxState, cmdRT, attempt, lastErr>>
  /\ UNCHANGED <<cfgVars, auxVars, poolVars, queue, nCalls, attVars, histVars>>

\* Pipeline.Exec(ctx): take the queue, clear it, run c.exec(ctx, cmds)
PipelineExec ==
  /\ pc = "idle"
  /\ nCalls < MaxCalls
  /\ PipelineLen(queue) # 0
  /\ \E c \in StartCtx : StartCall("pipe", c, FALSE, execCmds(queue))
  /\ queue' = execRest(queue)
  /\ qAtExec' = queue

\* The call has returned to its caller; the next call starts afresh.
Return ==
  /\ pc = "done"
  /\ pc' = "idle"
  /\ nCalls' = nCalls + 1
  /\ mode' = "single" /\ ctxState' = "none" /\ cmdRT' = FALSE /\ cmds' = <<>>
  /\ attempt' = 0 /\ lastErr' = NIL /\ ret' = NIL /\ retCmds' = <<>>
  /\ cn' = 0 /\ netClosed' = FALSE /\ wpc' = "none" /\ werr' = NIL
  /\ ri' = 0 /\ rdPos' = 0 /\ cnt' = -1
  /\ retryTimeout' = retryTimeoutInit /\ canRetry' = FALSE /\ aerr' = NIL
  /\ nAttempts' = 0 /\ prevCn' = 0 /\ prevErr' = NIL /\ rel' = <<>>
  /\ writeOK' = FALSE /\ consumed' = FALSE /\ netTouched' = FALSE
  /\ startDone' = FALSE /\ doneInFlight' = FALSE /\ tookDone' = FALSE
  /\ limRejected' = FALSE /\ qAtExec' = <<>> /\ got' = <<>> /\ lim' = <<>>
  /\ UNCHANGED <<cfgVars, auxVars, poolVars, queue>>

\* a pool whose Close fails once the pool is closed
poolClose_ErrClosed(isClosed) == IF isClosed THEN "ErrClosed" ELSE NIL

\* connPool.Close(): what it returns, on a pool that is open or closed
poolClose(isClosed) == NIL

\* baseClient.Close: the error of onClose if it gave one, else the pool's
baseClose(onCloseErr, poolErr) ==
  IF onCloseErr # NIL THEN onCloseErr ELSE poolErr

\* Client.Close(): the pool closes every connection it knows; no onClose is
\* registered by any constructor
Close ==
  /\ pc = "idle"
  /\ ~closed
  /\ Len(closes) < MaxCloses
  /\ closes' = Append(closes, baseClose(NIL, poolClose(closed)))
  /\ closed' = TRUE
  /\ idle' = <<>>
  /\ live' = {}
  /\ inited' = {}
  /\ UNCHANGED <<opt, auxVars, queue, nCalls, callVars, attVars, histVars>>

\* Client.Close() on a client that is closed: the pool has nothing to do
CloseAgain ==
  /\ pc = "idle"
  /\ closed
  /\ Len(closes) < MaxCloses
  /\ closes' = Append(closes, baseClose(NIL, poolClose(closed)))
  /\ UNCHANGED <<opt, auxVars, poolVars, queue, nCalls, callVars, attVars,
                 histVars>>

\* The caller's context is cancelled, or its deadline passes.
CtxDone ==
  /\ ctxState = "live"
  /\ pc \in {"loop", "sleep", "getConn", "run"}
  /\ ctxState' \in {"canceled", "deadline"}
  /\ doneInFlight' = (doneInFlight \/
                       (pc = "run" /\ wpc \in {"write", "readMeta", "readReply"}))
  /\ UNCHANGED <<pc, mode, cmdRT, cmds, attempt, lastErr, ret, retCmds>>
  /\ UNCHANGED <<cfgVars, auxVars, poolVars, queue, nCalls, attVars>>
  /\ UNCHANGED <<nAttempts, prevCn, prevErr, rel, writeOK, consumed, netTouched,
                 startDone, tookDone, limRejected, qAtExec, got, lim>>


(***************************************************************************)
(* The retry loop: baseClient.process / _generalProcessPipeline            *)
(***************************************************************************)
\* for attempt := 0; attempt <= c.opt.MaxRetries; attempt++ : one more attempt
LoopEnter ==
  /\ pc = "loop"
  /\ loopCond(attempt, opt.MaxRetries)
  /\ pc' = IF attempt > 0 THEN "sleep" ELSE "getConn"
  /\ nAttempts' = nAttempts + 1
  /\ retryTimeout' = retryTimeoutInit
  /\ canRetry' = FALSE
  /\ cn' = 0 /\ netClosed' = FALSE /\ wpc' = "none" /\ werr' = NIL
  /\ ri' = 0 /\ rdPos' = 0 /\ cnt' = -1
  /\ rel' = <<>> /\ writeOK' = FALSE /\ consumed' = FALSE /\ got' = <<>>
  /\ doneInFlight' = FALSE /\ tookDone' = FALSE /\ lim' = <<>>
  /\ UNCHANGED <<mode, ctxState, cmdRT, cmds, attempt, lastErr, ret, retCmds>>
  /\ UNCHANGED <<cfgVars, auxVars, poolVars, queue, nCalls, aerr>>
  /\ UNCHANGED <<prevCn, prevErr, netTouched, startDone, limRejected, qAtExec>>

\* the loop condition fails: return lastErr
LoopExit ==
  /\ pc = "loop"
  /\ ~loopCond(attempt, opt.MaxRetries)
  /\ Finish(lastErr, cmds)
  /\ UNCHANGED <<mode, ctxState, cmdRT>>
  /\ UNCHANGED <<cfgVars, auxVars, poolVars, queue, nCalls, attVars, histVars>>

\* internal.Sleep(ctx, c.retryBackoff(attempt)): the timer fires
SleepOver ==
  /\ pc = "sleep"
  /\ pc' = "getConn"
  /\ UNCHANGED <<mode, ctxState, cmdRT, cmds, attempt, lastErr, ret, retCmds>>
  /\ UNCHANGED <<cfgVars, auxVars, poolVars, queue, nCalls, attVars, histVars>>

\* internal.Sleep returns ctx.Err(): _process returns (false, err), the
\* pipeline loop returns err
SleepCancelled ==
  /\ pc = "sleep"
  /\ CtxIsDone(ctxState)
  /\ aerr' = CtxErr(ctxState)
  /\ Finish(CtxErr(ctxState), cmds)
  /\ prevCn' = 0
  /\ prevErr' = CtxErr(ctxState)
  /\ UNCHANGED <<mode, ctxState, cmdRT>>
  /\ UNCHANGED <<cn, netClosed, wpc, werr, ri, rdPos, cnt, retryTimeout, canRetry>>
  /\ UNCHANGED <<cfgVars, auxVars, poolVars, queue, nCalls>>
  /\ UNCHANGED <<nAttempts, rel, writeOK, consumed, netTouched, startDone,
                 doneInFlight, tookDone, limRejected, qAtExec, got, lim>>

(***************************************************************************)
(* getConn / _getConn / initConn, with the pool's Get                      *)
(***************************************************************************)
\* withConn returns getConn's error: the attempt ends without a connection
NoConn(err) ==
  /\ aerr' = err
  /\ prevCn' = 0
  /\ prevErr' = err
  /\ Decide(err, cmds)
  /\ UNCHANGED <<mode, ctxState, cmdRT>>
  /\ UNCHANGED <<cn, netClosed, wpc, werr, ri, rdPos, cnt, retryTimeout, canRetry>>
  /\ UNCHANGED <<cfgVars, auxVars, queue, nCalls>>
  /\ UNCHANGED <<nAttempts, writeOK, consumed, startDone, doneInFlight, tookDone,
                 qAtExec, got>>

\* getConn: c.opt.Limiter.Allow() returns an error
GetConnLimited ==
  /\ pc = "getConn"
  /\ opt.Limiter
  /\ limRejected' = TRUE
  /\ lim' = limiterAllow(opt.Limiter, lim, "limiterErr")
  /\ NoConn("limiterErr")
  /\ UNCHANGED <<poolVars, rel, netTouched>>

\* pool.Get fails: the pool is closed, or the context is done
GetConnPoolErr ==
  /\ pc = "getConn"
  /\ closed \/ CtxIsDone(ctxState)
  /\ LET e == IF closed THEN "ErrClosed" ELSE CtxErr(ctxState) IN
     /\ lim' = getConnFailed(opt.Limiter, lim, e)
     /\ NoConn(e)
  /\ UNCHANGED <<poolVars, rel, netTouched, limRejected>>

\* pool.Get dials, and the dial fails
GetConnDialErr ==
  /\ pc = "getConn"
  /\ ~closed /\ ~CtxIsDone(ctxState)
  /\ idle = <<>>
  /\ netTouched' = TRUE
  /\ \E e \in DialErrs :
       /\ lim' = getConnFailed(opt.Limiter, lim, e)
       /\ NoConn(e)
  /\ UNCHANGED <<poolVars, rel, limRejected>>

\* A name for a connection just dialed: a connection is a new object, so its
\* name is one that no connection the model still refers to carries.
FreshCn ==
  CHOOSE k \in 1..(Cardinality(live) + 2) :
    /\ k \notin live \cup {prevCn}
    /\ \A j \in 1..(k - 1) : j \in live \cup {prevCn}

\* pool.Get: the idle connection used last, or a fresh one
PoolGet ==
  IF idle # <<>>
  THEN [cn |-> idle[Len(idle)], idle |-> SubSeq(idle, 1, Len(idle) - 1),
        dialed |-> FALSE]
  ELSE [cn |-> FreshCn, idle |-> idle, dialed |-> TRUE]

\* a pool that hands out connections after Close
CanGet_IgnoreClosed == ~CtxIsDone(ctxState)

CanGet == ~closed /\ ~CtxIsDone(ctxState)

\* _getConn: Get succeeds; the connection is Inited already, or initConn succeeds
GetConnOK ==
  /\ pc = "getConn"
  /\ CanGet
  /\ LET g == PoolGet IN
     /\ cn' = g.cn
     /\ idle' = g.idle
     /\ live' = live \cup {g.cn}
     /\ inited' = inited \cup {g.cn}
     /\ netTouched' = (netTouched \/ g.dialed)
  /\ lim' = limiterAllow(opt.Limiter, lim, NIL)
  /\ pc' = "run"
  /\ wpc' = "write"
  /\ UNCHANGED closed
  /\ UNCHANGED <<mode, ctxState, cmdRT, cmds, attempt, lastErr, ret, retCmds>>
  /\ UNCHANGED <<netClosed, werr, ri, rdPos, cnt, retryTimeout, canRetry, aerr>>
  /\ UNCHANGED <<cfgVars, auxVars, queue, nCalls>>
  /\ UNCHANGED <<nAttempts, prevCn, prevErr, rel, writeOK, consumed, startDone,
                 doneInFlight, tookDone, limRejected, qAtExec, got>>

\* _getConn: Get succeeds, initConn fails: c.connPool.Remove(ctx, cn, err)
GetConnInitErr ==
  /\ pc = "getConn"
  /\ CanGet
  /\ PoolGet.cn \notin inited
  /\ LET g == PoolGet IN
     /\ idle' = g.idle
     /\ live' = live \ {g.cn}
     /\ inited' = inited \ {g.cn}
     /\ \E e \in InitErrs :
          /\ rel' = Append(rel, [cn |-> g.cn, how |-> "Remove", err |-> e,
                                  by |-> "_getConn"])
          /\ lim' = getConnFailed(opt.Limiter, lim, e)
          /\ NoConn(e)
  /\ netTouched' = TRUE
  /\ UNCHANGED <<closed, limRejected>>


(***************************************************************************)
(* fn: the closure withConn runs on the connection (in a goroutine when    *)
(* ctx.Done() is not nil): _process's write and read, pipelineProcessCmds  *)
(***************************************************************************)
FnRunning == pc \in {"run", "waitWorker"}

\* fn returns e; pipelineProcessCmds returns (true, err)
FnReturn(e) ==
  /\ werr' = e
  /\ wpc' = "fin"
  /\ canRetry' = IF mode = "pipe" THEN TRUE ELSE canRetry

\* _process: the reader failed with e
ReadFailed(e) ==
  /\ FnReturn(e)
  /\ retryTimeout' = IF mode = "single"
                     THEN retryTimeoutStore(retryTimeout, cmdRT)
                     ELSE retryTimeout

\* cn.WithWriter: the metaframe and the command elements are written and flushed
FnWrite ==
  /\ FnRunning
  /\ wpc = "write"
  /\ \/ /\ ~netClosed
        /\ wpc' = "readMeta"
        /\ writeOK' = TRUE
        /\ netTouched' = TRUE
        /\ UNCHANGED <<werr, canRetry>>
     \/ /\ \E e \in WriteErrs :
             /\ netClosed => e # "timeoutErr"
             /\ FnReturn(e)
             /\ netTouched' = (netTouched \/ e # "encodeErr")
        /\ UNCHANGED writeOK
  /\ UNCHANGED <<cn, netClosed, ri, rdPos, cnt, retryTimeout, aerr>>
  /\ UNCHANGED <<cfgVars, auxVars, poolVars, queue, nCalls, callVars>>
  /\ UNCHANGED <<nAttempts, prevCn, prevErr, rel, consumed, startDone,
                 doneInFlight, tookDone, limRejected, qAtExec, got, lim>>

\* the counts a reply metaframe can carry for a request of n commands
MetaCounts(n) == {k \in {n - 1, n, n + 1} : k >= 0}

\* the count _process / pipelineReadCmds expects
Expected == IF mode = "single" THEN 1 ELSE Len(cmds)

\* rd.ReadMetaFrame() and the count check
FnReadMeta ==
  /\ FnRunning
  /\ wpc = "readMeta"
  /\ \/ /\ \E e \in ReadLineErrs \cup {"protoErr"} : ReadFailed(e)
        /\ UNCHANGED <<cnt, ri, consumed>>
     \/ \E k \in MetaCounts(Expected) :
          /\ cnt' = k
          /\ consumed' = TRUE
          /\ IF k # Expected
             THEN /\ ReadFailed("protoErr")
                  /\ UNCHANGED ri
             ELSE /\ wpc' = "readReply"
                  /\ ri' = 1
                  /\ UNCHANGED <<werr, canRetry, retryTimeout>>
  /\ netTouched' = TRUE
  /\ UNCHANGED <<cn, netClosed, rdPos, aerr>>
  /\ UNCHANGED <<cfgVars, auxVars, poolVars, queue, nCalls, callVars>>
  /\ UNCHANGED <<nAttempts, prevCn, prevErr, rel, writeOK, startDone,
                 doneInFlight, tookDone, limRejected, qAtExec, got, lim>>

\* _process: return cmd.readReply(rd)
ReadReplySingle(err, cs) ==
  /\ cmds' = cs
  /\ ReadFailed(err)
  /\ UNCHANGED ri

\* pipelineReadCmds: cmd.SetErr(err); a non-Skytable error ends the loop
ReadReplyPipe(err, cs) ==
  /\ cmds' = [cs EXCEPT ![ri].err = err]
  /\ IF readCmdsAborts(err) \/ ri = Len(cmds)
     THEN /\ FnReturn(IF readCmdsAborts(err) THEN err ELSE NIL)
          /\ UNCHANGED ri
     ELSE /\ ri' = ri + 1
          /\ UNCHANGED <<wpc, werr, canRetry>>
  /\ UNCHANGED retryTimeout

\* cmd.readReply(rd) for the command at ri: one reply element is consumed, or
\* the transport fails
FnReadReply ==
  /\ FnRunning
  /\ wpc = "readReply"
  /\ \/ \E el \in Elements :
          /\ rdPos' = rdPos + 1
          /\ got' = Append(got, el)
          /\ LET cs == [cmds EXCEPT ![ri].val = rdPos + 1] IN
             IF mode = "single"
             THEN ReadReplySingle(readReply(el), cs)
             ELSE ReadReplyPipe(readReply(el), cs)
     \/ \E e \in ReadErrs :
          /\ UNCHANGED <<rdPos, got>>
          /\ IF mode = "single"
             THEN ReadReplySingle(e, cmds)
             ELSE ReadReplyPipe(e, cmds)
  /\ UNCHANGED <<pc, mode, ctxState, cmdRT, attempt, lastErr, ret, retCmds>>
  /\ UNCHANGED <<cn, netClosed, cnt, aerr>>
  /\ UNCHANGED <<cfgVars, auxVars, poolVars, queue, nCalls>>
  /\ UNCHANGED <<nAttempts, prevCn, prevErr, rel, writeOK, consumed, netTouched,
                 startDone, doneInFlight, tookDone, limRejected, qAtExec, lim>>

(***************************************************************************)
(* withConn: the select, and the deferred releaseConn                      *)
(***************************************************************************)
\* case err = <-errc (or, when ctx.Done() is nil, err = fn(ctx, cn))
WithConnResult ==
  /\ pc = "run"
  /\ wpc = "fin"
  /\ aerr' = werr
  /\ pc' = "release"
  /\ UNCHANGED <<mode, ctxState, cmdRT, cmds, attempt, lastErr, ret, retCmds>>
  /\ UNCHANGED <<cn, netClosed, wpc, werr, ri, rdPos, cnt, retryTimeout, canRetry>>
  /\ UNCHANGED <<cfgVars, auxVars, poolVars, queue, nCalls, histVars>>

\* case <-done: _ = cn.Close()
WithConnDone ==
  /\ pc = "run"
  /\ CtxIsDone(ctxState)
  /\ netClosed' = TRUE
  /\ tookDone' = TRUE
  /\ pc' = "waitWorker"
  /\ UNCHANGED <<mode, ctxState, cmdRT, cmds, attempt, lastErr, ret, retCmds>>
  /\ UNCHANGED <<cn, wpc, werr, ri, rdPos, cnt, retryTimeout, canRetry, aerr>>
  /\ UNCHANGED <<cfgVars, auxVars, poolVars, queue, nCalls>>
  /\ UNCHANGED <<nAttempts, prevCn, prevErr, rel, writeOK, consumed, netTouched,
                 startDone, doneInFlight, limRejected, qAtExec, got, lim>>

\* a receive from errc that does not wait for the worker
workerDone_Always(w) == TRUE

\* <-errc: the worker goroutine has sent what fn returned
workerDone(w) == w = "fin"

\* <-errc after the close; err = ctx.Err()
WithConnWaited ==
  /\ pc = "waitWorker"
  /\ workerDone(wpc)
  /\ aerr' = CtxErr(ctxState)
  /\ pc' = "release"
  /\ UNCHANGED <<mode, ctxState, cmdRT, cmds, attempt, lastErr, ret, retCmds>>
  /\ UNCHANGED <<cn, netClosed, wpc, werr, ri, rdPos, cnt, retryTimeout, canRetry>>
  /\ UNCHANGED <<cfgVars, auxVars, poolVars, queue, nCalls, histVars>>

\* the deferred c.releaseConn(ctx, cn, err), then the loop's decision
Release ==
  /\ pc = "release"
  /\ LET how == releaseConn(aerr) IN
     /\ rel' = Append(rel, [cn |-> cn, how |-> how, err |-> aerr,
                        by |-> "releaseConn"])
     /\ IF how = "Remove"
        THEN /\ live' = live \ {cn}
             /\ inited' = inited \ {cn}
             /\ idle' = idle
        ELSE /\ idle' = IF how = "Put" THEN Append(idle, cn) ELSE idle
             /\ UNCHANGED <<live, inited>>
  /\ lim' = reportResult(opt.Limiter, lim, aerr)
  /\ prevCn' = cn
  /\ prevErr' = aerr
  /\ cn' = 0
  /\ Decide(aerr, cmds)
  /\ UNCHANGED <<mode, ctxState, cmdRT>>
  /\ UNCHANGED closed
  /\ UNCHANGED <<netClosed, wpc, werr, ri, rdPos, cnt, retryTimeout, canRetry, aerr>>
  /\ UNCHANGED <<cfgVars, auxVars, queue, nCalls>>
  /\ UNCHANGED <<nAttempts, writeOK, consumed, netTouched, startDone,
                 doneInFlight, tookDone, limRejected, qAtExec, got>>

Next ==
  \/ ClientProcess
  \/ PipelineProcess
  \/ PipelineDiscard
  \/ PipelineExecEmpty
  \/ PipelineExec
  \/ Return
  \/ Close
  \/ CloseAgain
  \/ CtxDone
  \/ LoopEnter
  \/ LoopExit
  \/ SleepOver
  \/ SleepCancelled
  \/ GetConnLimited
  \/ GetConnPoolErr
  \/ GetConnDialErr
  \/ GetConnOK
  \/ GetConnInitErr
  \/ FnWrite
  \/ FnReadMeta
  \/ FnReadReply
  \/ WithConnResult
  \/ WithConnDone
  \/ WithConnWaited
  \/ Release

Spec == Init /\ [][Next]_vars

(***************************************************************************)
(* pipeline.go: one Pipeline used by several goroutines.  Every method     *)
(* locks c.mu, works on c.cmds and unlocks; Exec keeps the mutex while the *)
(* exec callback runs (defer c.mu.Unlock()).                               *)
(***************************************************************************)
\* what a Pipeline call leaves alone
pipeOthers ==
  <<clientVars, hookVars, cloneVars, initVars, readerVars,
    optionVars, timeoutVars,
    normVars,
    lgetVars>>

\* a mutex that excludes nobody
muFree_Always(holder) == TRUE

\* c.mu.Lock() can proceed
muFree(holder) == holder = 0

\* the elements of a sequence
Range(sq) == {sq[i] : i \in 1..Len(sq)}

\* positions of Exec between its Lock and its Unlock
ExecHolding == {"eCheck", "eTake", "eClear", "eRun", "eRet"}

\* a call that queues a new command begins
QueueCall(g) ==
  /\ ppc[g] = "idle"
  /\ pnext <= MaxQueued
  /\ pid' = [pid EXCEPT ![g] = pnext]
  /\ pnext' = pnext + 1
  /\ pwhen' = [pwhen EXCEPT ![pnext] = {h \in Goroutines : ppc[h] \in ExecHolding}]
  /\ ppc' = [ppc EXCEPT ![g] = "pLock"]
  /\ UNCHANGED <<pmu, pq, ptmp, pbatches, pdisc>>
  /\ UNCHANGED pipeOthers

\* Pipeline.Process(ctx, cmd) is called
PipeProcessCall(g) == QueueCall(g)

\* Pipeline.Do(ctx, args...): NewCmd, then c.Process(ctx, cmd)
PipeDoCall(g) == QueueCall(g)

\* a call without a command begins
PlainCall(g, first) ==
  /\ ppc[g] = "idle"
  /\ ppc' = [ppc EXCEPT ![g] = first]
  /\ UNCHANGED <<pmu, pq, ptmp, pid, pbatches, pdisc, pnext, pwhen>>
  /\ UNCHANGED pipeOthers

\* Pipeline.Discard() is called
PipeDiscardCall(g) == PlainCall(g, "dLock")

\* Pipeline.Len() is called
PipeLenCall(g) == PlainCall(g, "lLock")

\* Pipeline.Exec(ctx) is called
PipeExecCall(g) == PlainCall(g, "eLock")

\* the position after c.mu.Lock()
AfterLock(at) ==
  CASE at = "pLock" -> "pRead"
    [] at = "dLock" -> "dClear"
    [] at = "lLock" -> "lRead"
    [] at = "eLock" -> "eCheck"

\* c.mu.Lock()
MuLock(g) ==
  /\ ppc[g] \in {"pLock", "dLock", "lLock", "eLock"}
  /\ muFree(pmu)
  /\ pmu' = g
  /\ ppc' = [ppc EXCEPT ![g] = AfterLock(ppc[g])]
  /\ UNCHANGED <<pq, ptmp, pid, pbatches, pdisc, pnext, pwhen>>
  /\ UNCHANGED pipeOthers

\* Process: append(c.cmds, cmd) reads the slice
ProcessRead(g) ==
  /\ ppc[g] = "pRead"
  /\ ptmp' = [ptmp EXCEPT ![g] = pq]
  /\ ppc' = [ppc EXCEPT ![g] = "pWrite"]
  /\ UNCHANGED <<pmu, pq, pid, pbatches, pdisc, pnext, pwhen>>
  /\ UNCHANGED pipeOthers

\* Process: c.cmds = the appended slice
ProcessWrite(g) ==
  /\ ppc[g] = "pWrite"
  /\ pq' = Append(ptmp[g], pid[g])
  /\ ppc' = [ppc EXCEPT ![g] = "unlock"]
  /\ UNCHANGED <<pmu, ptmp, pid, pbatches, pdisc, pnext, pwhen>>
  /\ UNCHANGED pipeOthers

\* Discard: c.cmds = c.cmds[:0]
DiscardClear(g) ==
  /\ ppc[g] = "dClear"
  /\ pdisc' = pdisc \cup Range(pq)
  /\ pq' = <<>>
  /\ ppc' = [ppc EXCEPT ![g] = "unlock"]
  /\ UNCHANGED <<pmu, ptmp, pid, pbatches, pnext, pwhen>>
  /\ UNCHANGED pipeOthers

\* Len: ln := len(c.cmds)
LenRead(g) ==
  /\ ppc[g] = "lRead"
  /\ ptmp' = [ptmp EXCEPT ![g] = pq]
  /\ ppc' = [ppc EXCEPT ![g] = "unlock"]
  /\ UNCHANGED <<pmu, pq, pid, pbatches, pdisc, pnext, pwhen>>
  /\ UNCHANGED pipeOthers

\* Exec: if len(c.cmds) == 0 { return nil, nil }
ExecCheck(g) ==
  /\ ppc[g] = "eCheck"
  /\ ppc' = [ppc EXCEPT ![g] = IF PipelineLen(pq) = 0 THEN "unlock" ELSE "eTake"]
  /\ UNCHANGED <<pmu, pq, ptmp, pid, pbatches, pdisc, pnext, pwhen>>
  /\ UNCHANGED pipeOthers

\* Exec: cmds := c.cmds
ExecTake(g) ==
  /\ ppc[g] = "eTake"
  /\ ptmp' = [ptmp EXCEPT ![g] = execCmds(pq)]
  /\ ppc' = [ppc EXCEPT ![g] = "eClear"]
  /\ UNCHANGED <<pmu, pq, pid, pbatches, pdisc, pnext, pwhen>>
  /\ UNCHANGED pipeOthers

\* Exec: c.cmds = nil
ExecClear(g) ==
  /\ ppc[g] = "eClear"
  /\ pq' = execRest(pq)
  /\ ppc' = [ppc EXCEPT ![g] = "eRun"]
  /\ UNCHANGED <<pmu, ptmp, pid, pbatches, pdisc, pnext, pwhen>>
  /\ UNCHANGED pipeOthers

\* Exec: c.exec(ctx, cmds) is called with the batch
ExecRun(g) ==
  /\ ppc[g] = "eRun"
  /\ pbatches' = Append(pbatches, ptmp[g])
  /\ ppc' = [ppc EXCEPT ![g] = "eRet"]
  /\ UNCHANGED <<pmu, pq, ptmp, pid, pdisc, pnext, pwhen>>
  /\ UNCHANGED pipeOthers

\* Exec: c.exec returns
ExecReturn(g) ==
  /\ ppc[g] = "eRet"
  /\ ppc' = [ppc EXCEPT ![g] = "unlock"]
  /\ UNCHANGED <<pmu, pq, ptmp, pid, pbatches, pdisc, pnext, pwhen>>
  /\ UNCHANGED pipeOthers

\* c.mu.Unlock(), and the call returns
MuUnlock(g) ==
  /\ ppc[g] = "unlock"
  /\ pmu' = IF pmu = g THEN 0 ELSE pmu
  /\ ppc' = [ppc EXCEPT ![g] = "idle"]
  /\ ptmp' = [ptmp EXCEPT ![g] = <<>>]
  /\ pid' = [pid EXCEPT ![g] = 0]
  /\ pwhen' = [i \in 1..MaxQueued |-> pwhen[i] \ {g}]
  /\ UNCHANGED <<pq, pbatches, pdisc, pnext>>
  /\ UNCHANGED pipeOthers

PipeInit == ClientStart /\ AuxStart

PipeNext ==
  \/ \E g \in Goroutines : PipeProcessCall(g)
  \/ \E g \in Goroutines : PipeDoCall(g)
  \/ \E g \in Goroutines : PipeDiscardCall(g)
  \/ \E g \in Goroutines : PipeLenCall(g)
  \/ \E g \in Goroutines : PipeExecCall(g)
  \/ \E g \in Goroutines : MuLock(g)
  \/ \E g \in Goroutines : ProcessRead(g)
  \/ \E g \in Goroutines : ProcessWrite(g)
  \/ \E g \in Goroutines : DiscardClear(g)
  \/ \E g \in Goroutines : LenRead(g)
  \/ \E g \in Goroutines : ExecCheck(g)
  \/ \E g \in Goroutines : ExecTake(g)
  \/ \E g \in Goroutines : ExecClear(g)
  \/ \E g \in Goroutines : ExecRun(g)
  \/ \E g \in Goroutines : ExecReturn(g)
  \/ \E g \in Goroutines : MuUnlock(g)

PipeSpec == PipeInit /\ [][PipeNext]_vars


(***************************************************************************)
(* skytable.go: hooks.process, as Client.Process, Conn.Process and the     *)
(* commands of initConn reach it.                                          *)
(***************************************************************************)
\* what hooks.process leaves alone
hookOthers ==
  <<clientVars, pipeVars, cloneVars, initVars, readerVars,
    optionVars, timeoutVars,
    normVars,
    lgetVars>>

\* the errors the BeforeProcess / AfterProcess of hooks 1, 2, ... return
BeforeErrName == <<"before1", "before2", "before3">>
AfterErrName == <<"after1", "after2", "after3">>

\* what the inner processing (baseClient.process) returns
InnerResults == {NIL, "EOF", "Nil"}

\* who hands a command to hooks.process: Client.Process, the Process of a
\* Conn from Client.Conn(), the Process of initConn's Conn (AUTH / USE)
Routes == {"client", "conn", "init"}

\* len(hs.hooks) for the route: newConn builds a conn whose hooks are empty
hooksLen(route, n) == IF route = "client" THEN n ELSE 0

\* a Before loop that goes on after an error
beforeCond_IgnoreErr(idx, n, err) == idx < n

\* hooks.process: hookIndex < len(hs.hooks) && retErr == nil
beforeCond(idx, n, err) == idx < n /\ err = NIL

\* an After loop that leaves out the hook registered first
afterCond_SkipFirst(idx) == idx >= 1

\* hooks.process: hookIndex >= 0
afterCond(idx) == idx >= 0

\* an After loop that keeps the error it already has
afterResult_KeepFirst(old, err) == IF err # NIL /\ old = NIL THEN err ELSE old

\* hooks.process: if err := AfterProcess(...); err != nil { retErr = err }
afterResult(old, err) == IF err # NIL THEN err ELSE old

\* Client.AddHook(hook): hs.hooks = append(hs.hooks, hook)
HookAdd ==
  /\ hpc = "idle"
  /\ hn < MaxHooks
  /\ hn' = hn + 1
  /\ UNCHANGED <<hroute, hpc, hidx, hret, hcmdErr, hsets, htrace>>
  /\ UNCHANGED hookOthers

\* Process(ctx, cmd) is called: hooks.process starts
HookCall ==
  /\ hpc = "idle"
  /\ \E r \in Routes :
       /\ hroute' = r
       /\ hpc' = IF hooksLen(r, hn) = 0 THEN "plain" ELSE "before"
  /\ hidx' = 0
  /\ hret' = NIL
  /\ hcmdErr' = NIL
  /\ hsets' = <<>>
  /\ htrace' = <<>>
  /\ UNCHANGED hn
  /\ UNCHANGED hookOthers

\* len(hs.hooks) == 0: err := fn(ctx, cmd); cmd.SetErr(err); return err
HookPlain ==
  /\ hpc = "plain"
  /\ \E e \in InnerResults :
       /\ hret' = e
       /\ hcmdErr' = e
       /\ hsets' = Append(hsets, e)
       /\ htrace' = Append(htrace, [ev |-> "Inner", hook |-> 0, res |-> e])
  /\ hpc' = "done"
  /\ UNCHANGED <<hn, hroute, hidx>>
  /\ UNCHANGED hookOthers

\* a Before loop that stores every result on the command
beforeSetsErr_Always(err) == TRUE

\* the Before loop: if retErr != nil { cmd.SetErr(retErr) }
beforeSetsErr(err) == err # NIL

\* the Before loop's body: BeforeProcess of hs.hooks[hookIndex]
HookBefore ==
  /\ hpc = "before"
  /\ beforeCond(hidx, hooksLen(hroute, hn), hret)
  /\ \E e \in {NIL, BeforeErrName[hidx + 1]} :
       /\ hret' = e
       /\ hcmdErr' = IF beforeSetsErr(e) THEN e ELSE hcmdErr
       /\ hsets' = IF beforeSetsErr(e) THEN Append(hsets, e) ELSE hsets
       /\ htrace' = Append(htrace, [ev |-> "Before", hook |-> hidx + 1, res |-> e])
  /\ hidx' = hidx + 1
  /\ UNCHANGED <<hn, hroute, hpc>>
  /\ UNCHANGED hookOthers

\* the Before loop ends: on to fn when retErr == nil, else to the After loop
HookBeforeExit ==
  /\ hpc = "before"
  /\ ~beforeCond(hidx, hooksLen(hroute, hn), hret)
  /\ IF hret = NIL
     THEN hpc' = "inner" /\ UNCHANGED hidx
     ELSE hpc' = "after" /\ hidx' = hidx - 1
  /\ UNCHANGED <<hn, hroute, hret, hcmdErr, hsets, htrace>>
  /\ UNCHANGED hookOthers

\* retErr = fn(ctx, cmd); cmd.SetErr(retErr); then hookIndex--
HookInner ==
  /\ hpc = "inner"
  /\ \E e \in InnerResults :
       /\ hret' = e
       /\ hcmdErr' = e
       /\ hsets' = Append(hsets, e)
       /\ htrace' = Append(htrace, [ev |-> "Inner", hook |-> 0, res |-> e])
  /\ hpc' = "after"
  /\ hidx' = hidx - 1
  /\ UNCHANGED <<hn, hroute>>
  /\ UNCHANGED hookOthers

\* an After loop that never stores its error on the command
afterSetsErr_Never(err) == FALSE

\* the After loop: if err != nil { retErr = err; cmd.SetErr(retErr) }
afterSetsErr(err) == err # NIL

\* the After loop's body: AfterProcess of hs.hooks[hookIndex]
HookAfter ==
  /\ hpc = "after"
  /\ afterCond(hidx)
  /\ \E e \in {NIL, AfterErrName[hidx + 1]} :
       /\ hret' = afterResult(hret, e)
       /\ hcmdErr' = IF afterSetsErr(e) THEN afterResult(hret, e) ELSE hcmdErr
       /\ hsets' = IF afterSetsErr(e)
                  THEN Append(hsets, afterResult(hret, e))
                  ELSE hsets
       /\ htrace' = Append(htrace, [ev |-> "After", hook |-> hidx + 1, res |-> e])
  /\ hidx' = hidx - 1
  /\ UNCHANGED <<hn, hroute, hpc>>
  /\ UNCHANGED hookOthers

\* the After loop ends: return retErr
HookReturn ==
  /\ hpc = "after"
  /\ ~afterCond(hidx)
  /\ hpc' = "done"
  /\ UNCHANGED <<hn, hroute, hidx, hret, hcmdErr, hsets, htrace>>
  /\ UNCHANGED hookOthers

\* the caller goes on; the next command may follow
HookNext ==
  /\ hpc = "done"
  /\ hpc' = "idle"
  /\ hidx' = 0
  /\ hret' = NIL
  /\ hcmdErr' = NIL
  /\ hsets' = <<>>
  /\ htrace' = <<>>
  /\ hroute' = "client"
  /\ UNCHANGED hn
  /\ UNCHANGED hookOthers

HookInit == ClientStart /\ AuxStart

HookSpecNext ==
  \/ HookAdd
  \/ HookCall
  \/ HookPlain
  \/ HookBefore
  \/ HookBeforeExit
  \/ HookInner
  \/ HookAfter
  \/ HookReturn
  \/ HookNext

HookSpec == HookInit /\ [][HookSpecNext]_vars


(***************************************************************************)
(* skytable.go: Client.clone / WithTimeout and AddHook on the hooks slice. *)
(* A slice is a header [arr, len, cap] over a backing array that other     *)
(* headers may share; append writes in place while len < cap.              *)
(***************************************************************************)
\* what clone and AddHook leave alone
cloneOthers ==
  <<clientVars, pipeVars, hookVars, initVars, readerVars,
    optionVars, timeoutVars,
    normVars,
    lgetVars>>

\* a lock that leaves the capacity as it is
lockCap_Keep(len, cap) == cap

\* hooks.lock: hs.hooks = hs.hooks[:len(hs.hooks):len(hs.hooks)]
lockCap(len, cap) == len

\* append's capacity when the slice is full
growCap(cap) == IF cap = 0 THEN 1 ELSE 2 * cap

\* the hooks a slice header shows
SliceSeq(h) == IF h.arr = 0 THEN <<>> ELSE SubSeq(carr[h.arr], 1, h.len)

\* the hooks client c sees
HooksSeen(c) == SliceSeq(cl[c])

\* Client.clone (also through WithTimeout): clone := *c; clone.hooks.lock()
CloneClient(c) ==
  /\ Len(cl) < MaxClients
  /\ cl' = Append(cl, [arr |-> cl[c].arr, len |-> cl[c].len,
                       cap |-> lockCap(cl[c].len, cl[c].cap)])
  /\ cview' = Append(cview, cview[c])
  /\ UNCHANGED <<carr, cadds>>
  /\ UNCHANGED cloneOthers

\* AddHook on client c, the slice has room: append writes into the array
AddHookInPlace(c) ==
  /\ cadds < MaxHookAdds
  /\ cl[c].len < cl[c].cap
  /\ carr' = [carr EXCEPT ![cl[c].arr][cl[c].len + 1] = cadds + 1]
  /\ cl' = [cl EXCEPT ![c].len = cl[c].len + 1]
  /\ cview' = [cview EXCEPT ![c] = Append(cview[c], cadds + 1)]
  /\ cadds' = cadds + 1
  /\ UNCHANGED cloneOthers

\* AddHook on client c, the slice is full: append copies into a new array
AddHookGrow(c) ==
  /\ cadds < MaxHookAdds
  /\ cl[c].len = cl[c].cap
  /\ LET newcap == growCap(cl[c].cap)
         old == SliceSeq(cl[c])
         fresh == [i \in 1..newcap |->
                     IF i <= Len(old) THEN old[i]
                     ELSE IF i = Len(old) + 1 THEN cadds + 1 ELSE 0]
     IN /\ carr' = Append(carr, fresh)
        /\ cl' = [cl EXCEPT ![c] = [arr |-> Len(carr) + 1, len |-> Len(old) + 1,
                                    cap |-> newcap]]
  /\ cview' = [cview EXCEPT ![c] = Append(cview[c], cadds + 1)]
  /\ cadds' = cadds + 1
  /\ UNCHANGED cloneOthers

CloneInit == ClientStart /\ AuxStart

CloneNext ==
  \/ \E c \in 1..Len(cl) : CloneClient(c)
  \/ \E c \in 1..Len(cl) : AddHookInPlace(c)
  \/ \E c \in 1..Len(cl) : AddHookGrow(c)

CloneSpec == CloneInit /\ [][CloneNext]_vars


(***************************************************************************)
(* skytable.go: _getConn and initConn, one step per statement; a           *)
(* connection is held by one goroutine at a time, so its position is kept  *)
(* with the connection.                                                    *)
(***************************************************************************)
\* what the connection path leaves alone
initOthers ==
  <<clientVars, pipeVars, hookVars, cloneVars, readerVars,
    optionVars, timeoutVars,
    normVars,
    lgetVars>>

Usernames == {"", "user"}
Tokens == {"", "token"}
Tables == {"", "default:tbl"}

\* what an init step can fail with: a server error, or an error that wraps
\* another (a net.OpError, or whatever OnConnect returns)
InitStepErrs == {"BadCredentials", "wrapped(EOF)"}

\* errors.Unwrap
errorsUnwrap(e) == IF e = "wrapped(EOF)" THEN "EOF" ELSE NIL

\* the init error handed on as it is
initErrReturned_Same(e) == e

\* _getConn: if err := errors.Unwrap(err); err != nil { return nil, err }
\*           return nil, err
initErrReturned(e) == IF errorsUnwrap(e) # NIL THEN errorsUnwrap(e) ELSE e

\* an initialisation that runs whatever the flag says
needsInit_Always(flag) == TRUE

\* _getConn / initConn: if cn.Inited { return }
needsInit(flag) == ~flag

\* initConn: if username != "" && token != ""
authNeeded(username, token) == username # "" /\ token # ""

\* initConn: if c.opt.Table != ""
useNeeded(table) == table # ""

\* checkouts of the connections 1..n so far
RECURSIVE CheckoutsUpTo(_)
CheckoutsUpTo(n) == IF n = 0 THEN 0 ELSE icount[n] + CheckoutsUpTo(n - 1)

\* connPool.Get hands out a connection: an idle one, or a new one (dialed in
\* the order of their numbers)
PoolCheckout(k) ==
  /\ icn[k].at \in {"undialed", "idle"}
  /\ icn[k].at = "undialed" => \A j \in 1..(k - 1) : icn[j].at # "undialed"
  /\ CheckoutsUpTo(MaxConns) < MaxCheckouts
  /\ icn' = [icn EXCEPT ![k].at = "get"]
  /\ icount' = [icount EXCEPT ![k] = @ + 1]
  /\ UNCHANGED <<iopt, ilog, iinits>>
  /\ UNCHANGED initOthers

\* _getConn: the connection is Inited, return it
GetConnInited(k) ==
  /\ icn[k].at = "get"
  /\ ~needsInit(icn[k].Inited)
  /\ icn' = [icn EXCEPT ![k].at = "ready"]
  /\ UNCHANGED <<iopt, ilog, iinits, icount>>
  /\ UNCHANGED initOthers

\* initConn: set Inited and take the credentials, from the provider if any
InitConnEnter(k) ==
  /\ icn[k].at = "get"
  /\ needsInit(icn[k].Inited)
  /\ \E u \in Usernames, t \in Tokens :
       /\ ~iopt.CredentialsProvider => (u = iopt.Username /\ t = iopt.Token)
       /\ icn' = [icn EXCEPT ![k] = [at |-> "auth", Inited |-> TRUE,
                                       user |-> u, token |-> t,
                                       err |-> NIL, res |-> NIL]]
  /\ iinits' = [iinits EXCEPT ![k] = @ + 1]
  /\ UNCHANGED <<iopt, ilog, icount>>
  /\ UNCHANGED initOthers

\* initConn: conn.Login(ctx, username, token), which may fail
InitConnLogin(k) ==
  /\ icn[k].at = "auth"
  /\ authNeeded(icn[k].user, icn[k].token)
  /\ ilog' = [ilog EXCEPT ![k] = Append(@, "AUTH")]
  /\ \E e \in {NIL} \cup InitStepErrs :
       icn' = [icn EXCEPT ![k].at = IF e = NIL THEN "use" ELSE "initfail",
                          ![k].err = e]
  /\ UNCHANGED <<iopt, iinits, icount>>
  /\ UNCHANGED initOthers

\* initConn: no credentials, no AUTH
InitConnNoLogin(k) ==
  /\ icn[k].at = "auth"
  /\ ~authNeeded(icn[k].user, icn[k].token)
  /\ icn' = [icn EXCEPT ![k].at = "use"]
  /\ UNCHANGED <<iopt, ilog, iinits, icount>>
  /\ UNCHANGED initOthers

\* initConn: conn.Use(ctx, c.opt.Table), which may fail
InitConnUse(k) ==
  /\ icn[k].at = "use"
  /\ useNeeded(iopt.Table)
  /\ ilog' = [ilog EXCEPT ![k] = Append(@, "USE")]
  /\ \E e \in {NIL} \cup InitStepErrs :
       icn' = [icn EXCEPT ![k].at = IF e = NIL THEN "onconnect" ELSE "initfail",
                          ![k].err = e]
  /\ UNCHANGED <<iopt, iinits, icount>>
  /\ UNCHANGED initOthers

\* initConn: no table, no USE
InitConnNoUse(k) ==
  /\ icn[k].at = "use"
  /\ ~useNeeded(iopt.Table)
  /\ icn' = [icn EXCEPT ![k].at = "onconnect"]
  /\ UNCHANGED <<iopt, ilog, iinits, icount>>
  /\ UNCHANGED initOthers

\* initConn: return c.opt.OnConnect(ctx, conn), which may fail
InitConnOnConnect(k) ==
  /\ icn[k].at = "onconnect"
  /\ iopt.OnConnect
  /\ ilog' = [ilog EXCEPT ![k] = Append(@, "OnConnect")]
  /\ \E e \in {NIL} \cup InitStepErrs :
       icn' = [icn EXCEPT ![k].at = IF e = NIL THEN "ready" ELSE "initfail",
                          ![k].err = e]
  /\ UNCHANGED <<iopt, iinits, icount>>
  /\ UNCHANGED initOthers

\* initConn: no OnConnect, return nil
InitConnNoOnConnect(k) ==
  /\ icn[k].at = "onconnect"
  /\ ~iopt.OnConnect
  /\ icn' = [icn EXCEPT ![k].at = "ready"]
  /\ UNCHANGED <<iopt, ilog, iinits, icount>>
  /\ UNCHANGED initOthers

\* _getConn: initConn failed, c.connPool.Remove(ctx, cn, err), and the error
\* goes to the caller, unwrapped if it wraps another
GetConnRemove(k) ==
  /\ icn[k].at = "initfail"
  /\ icn' = [icn EXCEPT ![k].at = "removed",
                         ![k].res = initErrReturned(icn[k].err)]
  /\ UNCHANGED <<iopt, ilog, iinits, icount>>
  /\ UNCHANGED initOthers

\* withConn: the user command is written to the connection, which then goes
\* back to the pool (Put) or, after a bad-connection error, is removed
UserCommand(k) ==
  /\ icn[k].at = "ready"
  /\ ilog' = [ilog EXCEPT ![k] = Append(@, "cmd")]
  /\ \E bad \in BOOLEAN :
       icn' = [icn EXCEPT ![k].at = IF bad THEN "removed" ELSE "idle"]
  /\ UNCHANGED <<iopt, iinits, icount>>
  /\ UNCHANGED initOthers

\* any Options, nothing dialed yet
InitConnInit ==
  /\ ClientStart /\ LgetStart /\ NormStart /\ PipeStart /\ HookStart /\ CloneStart
  /\ ReaderStart
  /\ OptionsStart /\ TimeoutStart
  /\ iopt \in [Username : Usernames, Token : Tokens,
               CredentialsProvider : BOOLEAN, Table : Tables,
               OnConnect : BOOLEAN]
  /\ icn = [k \in Conns |-> [at |-> "undialed", Inited |-> FALSE,
                               user |-> "", token |-> "",
                               err |-> NIL, res |-> NIL]]
  /\ ilog = [k \in Conns |-> <<>>]
  /\ iinits = [k \in Conns |-> 0]
  /\ icount = [k \in Conns |-> 0]

InitConnNext ==
  \/ \E k \in Conns : PoolCheckout(k)
  \/ \E k \in Conns : GetConnInited(k)
  \/ \E k \in Conns : InitConnEnter(k)
  \/ \E k \in Conns : InitConnLogin(k)
  \/ \E k \in Conns : InitConnNoLogin(k)
  \/ \E k \in Conns : InitConnUse(k)
  \/ \E k \in Conns : InitConnNoUse(k)
  \/ \E k \in Conns : InitConnOnConnect(k)
  \/ \E k \in Conns : InitConnNoOnConnect(k)
  \/ \E k \in Conns : GetConnRemove(k)
  \/ \E k \in Conns : UserCommand(k)

InitConnSpec == InitConnInit /\ [][InitConnNext]_vars


(***************************************************************************)
(* internal/proto: the reply reader.  A byte is a one-character string,    *)
(* LF and CR stand for \n and \r; a stream is what is left to read.        *)
(***************************************************************************)
LF == "LF"
CR == "CR"

DigitChars == <<"0", "1", "2", "3", "4", "5", "6", "7", "8", "9">>

IsDigit(ch) == \E d \in 1..Len(DigitChars) : DigitChars[d] = ch

DigitVal(ch) == (CHOOSE d \in 1..Len(DigitChars) : DigitChars[d] = ch) - 1

\* the number a run of digits denotes
RECURSIVE DigitsVal(_)
DigitsVal(bs) ==
  IF bs = <<>> THEN 0
  ELSE DigitsVal(SubSeq(bs, 1, Len(bs) - 1)) * 10 + DigitVal(bs[Len(bs)])

\* strconv.Itoa for n >= 0
RECURSIVE ItoaNat(_)
ItoaNat(n) ==
  IF n < 10 THEN <<DigitChars[n + 1]>>
  ELSE ItoaNat(n \div 10) \o <<DigitChars[(n % 10) + 1]>>

\* strconv.Itoa
Itoa(n) == IF n < 0 THEN <<"-">> \o ItoaNat(-n) ELSE ItoaNat(n)

\* util.Atoi, util.ParseInt(b, 10, 64): an optional sign and at least one
\* digit, nothing else
Atoi(bs) ==
  LET body == IF bs # <<>> /\ bs[1] \in {"+", "-"} THEN Tail(bs) ELSE bs
  IN IF body = <<>> \/ \E i \in 1..Len(body) : ~IsDigit(body[i])
     THEN [n |-> 0, err |-> "ErrSyntax"]
     ELSE [n |-> IF bs[1] = "-" THEN -DigitsVal(body) ELSE DigitsVal(body),
           err |-> NIL]

\* position of the first \n of a stream, 0 if there is none
FirstLF(s) ==
  IF \E i \in 1..Len(s) : s[i] = LF
  THEN CHOOSE i \in 1..Len(s) : s[i] = LF /\ \A j \in 1..(i - 1) : s[j] # LF
  ELSE 0

\* the bytes of s after the first n
Drop(s, n) == SubSeq(s, n + 1, Len(s))

\* bufio.Reader.ReadSlice('\n') with the first \n at position i (0: none):
\* the line if its \n is within the buffer, ErrBufferFull with a buffer's
\* worth of bytes if the buffer fills up first, io.EOF with what there is if
\* the stream ends first
readSliceAt(s, i) ==
  IF i # 0 /\ i <= BufSize
  THEN [b |-> SubSeq(s, 1, i), err |-> NIL, rest |-> Drop(s, i)]
  ELSE IF Len(s) >= BufSize
  THEN [b |-> SubSeq(s, 1, BufSize), err |-> "ErrBufferFull",
        rest |-> Drop(s, BufSize)]
  ELSE [b |-> s, err |-> "EOF", rest |-> <<>>]

bufioReadSlice(s) == readSliceAt(s, FirstLF(s))

\* bufio.Reader.ReadBytes('\n') with the first \n at position i: up to and
\* including it, however long; io.EOF if the stream ends first
readBytesAt(s, i) ==
  IF i # 0
  THEN [b |-> SubSeq(s, 1, i), err |-> NIL, rest |-> Drop(s, i)]
  ELSE [b |-> s, err |-> "EOF", rest |-> <<>>]

bufioReadBytes(s) == readBytesAt(s, FirstLF(s))

\* io.ReadFull(r.rd, b) for len(b) = n
ioReadFull(s, n) ==
  IF Len(s) >= n
  THEN [b |-> SubSeq(s, 1, n), err |-> NIL, rest |-> Drop(s, n)]
  ELSE [b |-> s, err |-> IF Len(s) = 0 /\ n > 0 THEN "EOF" ELSE "UnexpectedEOF",
        rest |-> <<>>]

\* Reply values, all of one shape: t is the Go type, n the number, s the
\* bytes, a the elements of a slice.
NoVal == [t |-> "none", n |-> 0, s |-> <<>>, a |-> <<>>]
IntVal(i) == [t |-> "int64", n |-> i, s |-> <<>>, a |-> <<>>]
StrVal(bs) == [t |-> "string", n |-> 0, s |-> bs, a |-> <<>>]
BytesVal(bs) == [t |-> "bytes", n |-> 0, s |-> bs, a |-> <<>>]
FloatVal(bs) == [t |-> "float32", n |-> 0, s |-> bs, a |-> <<>>]
NilVal == [t |-> "nil", n |-> 0, s |-> <<>>, a |-> <<>>]
ErrVal(e) == [t |-> "error", n |-> 0, s |-> <<e>>, a |-> <<>>]
SliceVal(vs) == [t |-> "slice", n |-> 0, s |-> <<>>, a |-> vs]

\* what a read returns: a value, an error and the stream it leaves
Ret(v, e, s) == [val |-> v, err |-> e, rest |-> s]
Fail(e, s) == [val |-> NoVal, err |-> e, rest |-> s]

\* what readLine returns: the line, an error and the stream it leaves
LineErr(e, s) == [b |-> <<>>, err |-> e, rest |-> s]

\* readLine's last check: a line of at most one byte, or without its \n, is
\* an invalid reply; the \n is cut off
lineChecked(b, s) ==
  IF Len(b) <= 1 \/ b[Len(b)] # LF THEN LineErr("invalidReply", s)
  ELSE [b |-> SubSeq(b, 1, Len(b) - 1), err |-> NIL, rest |-> s]

\* readLine after ErrBufferFull: m is what ReadBytes('\n') added
lineJoined(head, m) ==
  IF m.err # NIL THEN LineErr(m.err, m.rest)
  ELSE lineChecked(head \o m.b, m.rest)

\* a readLine for which a full buffer is an error like any other
lineFrom_NoGrow(r) ==
  IF r.err # NIL THEN LineErr(r.err, r.rest) ELSE lineChecked(r.b, r.rest)

\* readLine after r.rd.ReadSlice('\n') returned r
lineFrom(r) ==
  IF r.err = "ErrBufferFull" THEN lineJoined(r.b, bufioReadBytes(r.rest))
  ELSE IF r.err # NIL THEN LineErr(r.err, r.rest)
  ELSE lineChecked(r.b, r.rest)

\* Reader.readLine (ReadLine is readLine)
readLine(s) == lineFrom(bufioReadSlice(s))

\* a parsed number p as a read's result
intParsed(p, s) ==
  IF p.err # NIL THEN Fail(p.err, s) ELSE Ret(IntVal(p.n), NIL, s)

\* readInt on its line l: util.ParseInt(line[1:], 10, 64)
intFromLine(l) ==
  IF l.err # NIL THEN Fail(l.err, l.rest)
  ELSE intParsed(Atoi(Tail(l.b)), l.rest)

\* Reader.readInt: the next line, parsed from its second byte on
readInt(s) == intFromLine(readLine(s))

\* readFloat on its line l: the text from the second byte on is kept as the
\* value, strconv.ParseFloat is not modelled
floatFromLine(l) ==
  IF l.err # NIL THEN Fail(l.err, l.rest)
  ELSE Ret(FloatVal(Tail(l.b)), NIL, l.rest)

\* Reader.readFloat
readFloat(s) == floatFromLine(readLine(s))

\* replyLen on the parsed number p
lenParsed(p) ==
  IF p.err # NIL THEN [n |-> 0, err |-> p.err]
  ELSE IF p.n < 0 THEN [n |-> 0, err |-> "invalidReply"]
  ELSE [n |-> p.n, err |-> NIL]

\* replyLen(line)
replyLen(line) == lenParsed(Atoi(Tail(line)))

\* readString after io.ReadFull returned r: the first n bytes are the value
stringRead(n, r) ==
  IF r.err # NIL THEN Fail(r.err, r.rest)
  ELSE Ret(StrVal(SubSeq(r.b, 1, n)), NIL, r.rest)

\* readString with the length h of its header: n+1 bytes are read
stringOfLen(h, s) ==
  IF h.err # NIL THEN Fail(h.err, s)
  ELSE stringRead(h.n, ioReadFull(s, h.n + 1))

\* Reader.readString(line)
readString(line, s) == stringOfLen(replyLen(line), s)

\* a line l as a []byte result
bytesFromLine(l) ==
  IF l.err # NIL THEN Fail(l.err, l.rest) ELSE Ret(BytesVal(l.b), NIL, l.rest)

\* the blob case of ReadReply and ReadBytes: return r.readLine()
readBlobLine(s) == bytesFromLine(readLine(s))

\* readStatus on the parsed code p
statusParsed(p, s) ==
  IF p.err # NIL THEN Fail("badStatusLine", s)
  ELSE Ret(IntVal(0), readStatus(p.n), s)

\* readStatus on the line l that holds the code
statusFromLine(l) ==
  IF l.err # NIL THEN Fail(l.err, l.rest)
  ELSE statusParsed(Atoi(l.b), l.rest)

\* readStatus with the parsed length h of its header
statusOfLen(h, s) ==
  IF h.err # NIL THEN Fail(h.err, s) ELSE statusFromLine(readLine(s))

\* Reader.readStatus(line): the header's length, then the line with the code
readStatusLine(line, s) == statusOfLen(Atoi(Tail(line)), s)

\* a slot that is nil whatever the typed error
slotOfErr_Drop(e) == NilVal

\* readSlice's slot for an element that failed with a typed error: nil for
\* Nil, the error otherwise
slotOfErr(e) == IF e = "Nil" THEN NilVal ELSE ErrVal(e)

RECURSIVE ReadReply(_)
RECURSIVE readSliceLoop(_, _, _)
RECURSIVE sliceNext(_, _, _)

\* readSlice's loop body after ReadReply returned r for slot Len(acc)+1
sliceNext(n, acc, r) ==
  IF r.err = NIL THEN readSliceLoop(n, Append(acc, r.val), r.rest)
  ELSE IF isSkytableError(r.err)
  THEN readSliceLoop(n, Append(acc, slotOfErr(r.err)), r.rest)
  ELSE Fail(r.err, r.rest)

\* Reader.readSlice, the loop from slot Len(acc)+1 on
readSliceLoop(n, acc, s) ==
  IF Len(acc) >= n THEN Ret(SliceVal(acc), NIL, s)
  ELSE sliceNext(n, acc, ReadReply(s))

\* readSlice with the length h of its header
sliceOfLen(h, s) ==
  IF h.err # NIL THEN Fail(h.err, s) ELSE readSliceLoop(h.n, <<>>, s)

\* Reader.readSlice(line)
readSlice(line, s) == sliceOfLen(replyLen(line), s)

\* ReadReply on its first line l
replyFromLine(l) ==
  IF l.err # NIL THEN Fail(l.err, l.rest)
  ELSE CASE l.b[1] = "!" -> readStatusLine(l.b, l.rest)
         [] l.b[1] = ":" -> readInt(l.rest)
         [] l.b[1] = "%" -> readFloat(l.rest)
         [] l.b[1] = "+" -> readString(l.b, l.rest)
         [] l.b[1] = "?" -> readBlobLine(l.rest)
         [] l.b[1] = "&" -> readSlice(l.b, l.rest)
         [] OTHER -> Fail("cantParse", l.rest)

\* Reader.ReadReply
ReadReply(s) == replyFromLine(readLine(s))

\* the status case of the typed readers: a status with an error returns it,
\* one without leaves the switch and ends at the final "can't parse"
statusOnly(st) ==
  IF st.err # NIL THEN Fail(st.err, st.rest) ELSE Fail("cantParse", st.rest)

intReplyFromLine(l) ==
  IF l.err # NIL THEN Fail(l.err, l.rest)
  ELSE CASE l.b[1] = "!" -> statusOnly(readStatusLine(l.b, l.rest))
         [] l.b[1] = ":" -> readInt(l.rest)
         [] OTHER -> Fail("cantParse", l.rest)

\* Reader.ReadInt
ReadInt(s) == intReplyFromLine(readLine(s))

floatReplyFromLine(l) ==
  IF l.err # NIL THEN Fail(l.err, l.rest)
  ELSE CASE l.b[1] = "!" -> statusOnly(readStatusLine(l.b, l.rest))
         [] l.b[1] = "%" -> readFloat(l.rest)
         [] OTHER -> Fail("cantParse", l.rest)

\* Reader.ReadFloat
ReadFloat(s) == floatReplyFromLine(readLine(s))

stringReplyFromLine(l) ==
  IF l.err # NIL THEN Fail(l.err, l.rest)
  ELSE CASE l.b[1] = "!" -> statusOnly(readStatusLine(l.b, l.rest))
         [] l.b[1] \in {"+", "?"} -> readString(l.b, l.rest)
         [] OTHER -> Fail("cantParse", l.rest)

\* Reader.ReadString
ReadString(s) == stringReplyFromLine(readLine(s))

bytesReplyFromLine(l) ==
  IF l.err # NIL THEN Fail(l.err, l.rest)
  ELSE CASE l.b[1] = "!" -> statusOnly(readStatusLine(l.b, l.rest))
         [] l.b[1] = "?" -> readBlobLine(l.rest)
         [] OTHER -> Fail("cantParse", l.rest)

\* Reader.ReadBytes
ReadBytes(s) == bytesReplyFromLine(readLine(s))

sliceReplyFromLine(l) ==
  IF l.err # NIL THEN Fail(l.err, l.rest)
  ELSE CASE l.b[1] = "!" -> statusOnly(readStatusLine(l.b, l.rest))
         [] l.b[1] = "&" -> readSlice(l.b, l.rest)
         [] OTHER -> Fail("cantParse", l.rest)

\* Reader.ReadSlice
ReadSlice(s) == sliceReplyFromLine(readLine(s))

statusReplyFromLine(l) ==
  IF l.err # NIL THEN Fail(l.err, l.rest)
  ELSE IF l.b[1] # "!" THEN Fail("cantParse", l.rest)
  ELSE readStatusLine(l.b, l.rest)

\* Reader.ReadStatus
ReadStatus(s) == statusReplyFromLine(readLine(s))

\* Reader.ReadLine
ReadLine(s) == bytesFromLine(readLine(s))

(***************************************************************************)
(* A reader over a stream of reply elements.  The stream is the encoding   *)
(* of known elements, so that what is read can be held against what was    *)
(* sent.                                                                   *)
(***************************************************************************)
readerOthers ==
  <<clientVars, pipeVars, hookVars, cloneVars, initVars,
    optionVars, timeoutVars,
    normVars,
    lgetVars>>

\* An element as the server means it: k its kind, n its number (status code,
\* integer, or 1 for a raw line that has its \n), s its bytes, sub the
\* elements of an array.
Elem(k, n, s) == [k |-> k, n |-> n, s |-> s, sub |-> <<>>]
ArrElem(es) == [k |-> "arr", n |-> 0, s |-> <<>>, sub |-> es]

\* <lead><len>\n<payload>\n
Block(lead, payload) ==
  <<lead>> \o Itoa(Len(payload)) \o <<LF>> \o payload \o <<LF>>

\* the bytes of an element that is no array
EncodeScalar(e) ==
  CASE e.k = "status" -> Block("!", Itoa(e.n))
    [] e.k = "int" -> Block(":", Itoa(e.n))
    [] e.k = "str" -> Block("+", e.s)
    [] e.k = "blob" -> Block("?", e.s)
    [] e.k = "line" -> e.s \o (IF e.n = 1 THEN <<LF>> ELSE <<>>)

\* the bytes of elements that are no arrays, back to back
RECURSIVE EncodeScalars(_)
EncodeScalars(es) ==
  IF es = <<>> THEN <<>> ELSE EncodeScalar(Head(es)) \o EncodeScalars(Tail(es))

\* the bytes of an element: &<count>\n and the sub-elements for an array
Encode(e) ==
  IF e.k = "arr"
  THEN <<"&">> \o Itoa(Len(e.sub)) \o <<LF>> \o EncodeScalars(e.sub)
  ELSE EncodeScalar(e)

\* the bytes of elements back to back
RECURSIVE EncodeAll(_)
EncodeAll(es) ==
  IF es = <<>> THEN <<>> ELSE Encode(Head(es)) \o EncodeAll(Tail(es))

StatusElems == {Elem("status", c, <<>>) : c \in 0..MaxStatusCode}

IntElems == {Elem("int", i, <<>>) : i \in {0, 5, 10, 42, -5}}

\* payloads of strings and blobs, some with \n and \r\n inside
Payloads ==
  {<<>>, <<"a">>, <<"a", "b">>, <<"a", LF, "b">>, <<"a", CR, LF>>, <<LF>>}

StrElems == {Elem("str", 0, p) : p \in Payloads}

BlobElems == {Elem("blob", 0, p) : p \in Payloads}

\* raw lines of 0..MaxLine bytes, with and without their \n
RECURSIVE Run(_)
Run(n) == IF n = 0 THEN <<>> ELSE Append(Run(n - 1), "a")

LineElems == {Elem("line", t, Run(n)) : n \in 0..MaxLine, t \in {0, 1}}

\* what arrays are made of: statuses OK, Nil, typed and unknown; a string
ArrayPool ==
  {Elem("status", 0, <<>>), Elem("status", 1, <<>>), Elem("status", 3, <<>>),
   Elem("status", MaxTypedCode + 1, <<>>), Elem("str", 0, <<"a", "b">>)}

ArrElems ==
  {ArrElem(es) : es \in UNION {[1..n -> ArrayPool] : n \in 0..MaxArr}}

FirstElems ==
  StatusElems \cup IntElems \cup StrElems \cup BlobElems \cup LineElems
  \cup ArrElems

\* what may follow the first element on the stream
NextElems == {Elem("str", 0, <<"a", "b">>), Elem("status", 0, <<>>)}

\* the reader can go on: nothing read yet, or the last read ended without an
\* error or with a typed one
ReaderUsable ==
  /\ Len(rhist) < MaxReads
  /\ rhist # <<>> =>
       (rhist[Len(rhist)].err = NIL \/ isSkytableError(rhist[Len(rhist)].err))

\* a read with result r goes on record and moves the stream on
ReaderStep(op, r) ==
  /\ rhist' = Append(rhist, [op |-> op, val |-> r.val, err |-> r.err])
  /\ rrest' = r.rest
  /\ UNCHANGED rin
  /\ UNCHANGED readerOthers

DoReadReply ==
  /\ ReaderUsable
  /\ ReaderStep("ReadReply", ReadReply(rrest))

DoReadInt ==
  /\ ReaderUsable
  /\ ReaderStep("ReadInt", ReadInt(rrest))

DoReadFloat ==
  /\ ReaderUsable
  /\ ReaderStep("ReadFloat", ReadFloat(rrest))

DoReadString ==
  /\ ReaderUsable
  /\ ReaderStep("ReadString", ReadString(rrest))

DoReadBytes ==
  /\ ReaderUsable
  /\ ReaderStep("ReadBytes", ReadBytes(rrest))

DoReadSlice ==
  /\ ReaderUsable
  /\ ReaderStep("ReadSlice", ReadSlice(rrest))

DoReadStatus ==
  /\ ReaderUsable
  /\ ReaderStep("ReadStatus", ReadStatus(rrest))

DoReadLine ==
  /\ ReaderUsable
  /\ ReaderStep("ReadLine", ReadLine(rrest))

\* a reader in front of one or two elements
ReaderInit ==
  /\ ClientStart /\ LgetStart /\ NormStart /\ PipeStart /\ HookStart /\ CloneStart /\ InitConnStart
  /\ OptionsStart /\ TimeoutStart
  /\ \E e \in FirstElems :
       \/ rin = <<e>>
       \/ \E f \in NextElems : rin = <<e, f>>
  /\ rrest = EncodeAll(rin)
  /\ rhist = <<>>

ReaderNext ==
  \/ DoReadReply
  \/ DoReadInt
  \/ DoReadFloat
  \/ DoReadString
  \/ DoReadBytes
  \/ DoReadSlice
  \/ DoReadStatus
  \/ DoReadLine

ReaderSpec == ReaderInit /\ [][ReaderNext]_vars

(***************************************************************************)
(* options.go / skytable.go: MaxRetries from the caller through            *)
(* Options.init into the loop of process.                                  *)
(***************************************************************************)
optionOthers ==
  <<clientVars, pipeVars, hookVars, cloneVars, initVars, readerVars,
    timeoutVars,
    normVars,
    lgetVars>>

\* how an attempt can end: well, with errors that are retried, with errors
\* that are not
AttemptResults == {NIL, "EOF", "netErr", "Nil", "Canceled"}

\* NewClient: opt.init()
OptionsInit ==
  /\ opc = "new"
  /\ omax' = initMaxRetries(oraw)
  /\ opc' = "ready"
  /\ UNCHANGED <<oraw, oatt, otried>>
  /\ UNCHANGED optionOthers

\* process: var lastErr error; attempt := 0
OptionsProcess ==
  /\ opc = "ready"
  /\ otried = <<>>
  /\ opc' = "loop"
  /\ oatt' = 0
  /\ UNCHANGED <<oraw, omax, otried>>
  /\ UNCHANGED optionOthers

\* process: one turn of the loop, _process returns (retry, err)
OptionsAttempt ==
  /\ opc = "loop"
  /\ loopCond(oatt, omax)
  /\ \E e \in AttemptResults :
       /\ otried' = Append(otried, e)
       /\ IF processReturns(e, shouldRetry(e, TRUE))
          THEN opc' = "done" /\ oatt' = oatt
          ELSE opc' = "loop" /\ oatt' = oatt + 1
  /\ UNCHANGED <<oraw, omax>>
  /\ UNCHANGED optionOthers

\* process: the loop is over, return lastErr
OptionsLoopEnd ==
  /\ opc = "loop"
  /\ ~loopCond(oatt, omax)
  /\ opc' = "done"
  /\ UNCHANGED <<oraw, omax, oatt, otried>>
  /\ UNCHANGED optionOthers

\* a caller's Options, any MaxRetries
OptionsSpecInit ==
  /\ ClientStart /\ LgetStart /\ NormStart /\ PipeStart /\ HookStart /\ CloneStart /\ InitConnStart
  /\ ReaderStart /\ TimeoutStart
  /\ oraw \in (-2)..MaxRawRetries
  /\ omax = 0
  /\ opc = "new"
  /\ oatt = 0
  /\ otried = <<>>

OptionsNext ==
  \/ OptionsInit
  \/ OptionsProcess
  \/ OptionsAttempt
  \/ OptionsLoopEnd

OptionsSpec == OptionsSpecInit /\ [][OptionsNext]_vars

(***************************************************************************)
(* skytable.go: cmdTimeout and the read deadline of a single command.      *)
(***************************************************************************)
timeoutOthers ==
  <<clientVars, pipeVars, hookVars, cloneVars, initVars, readerVars,
    optionVars,
    normVars,
    lgetVars>>

\* cmdTimeout: 10*time.Second, in seconds
Grace == 10

\* a cmdTimeout without the grace
cmdTimeout_NoGrace(rt, readTimeout) ==
  IF rt.set THEN rt.d ELSE readTimeout

\* baseClient.cmdTimeout(cmd)
cmdTimeout(rt, readTimeout) ==
  IF rt.set
  THEN (IF rt.d = 0 THEN 0 ELSE rt.d + Grace)
  ELSE readTimeout

\* _process: c.cmdTimeout(cmd) for cn.WithReader
CmdTimeout ==
  /\ tpc = "new"
  /\ tout' = cmdTimeout(tcmd, tread)
  /\ tpc' = "timeout"
  /\ UNCHANGED <<tcmd, tread, tdl>>
  /\ UNCHANGED timeoutOthers

\* cn.WithReader(ctx, timeout, fn): the read deadline is now + timeout, or
\* none for a timeout of 0
SetReadDeadline ==
  /\ tpc = "timeout"
  /\ tdl' = [set |-> tout # 0, d |-> tout]
  /\ tpc' = "deadline"
  /\ UNCHANGED <<tcmd, tread, tout>>
  /\ UNCHANGED timeoutOthers

\* any command, any ReadTimeout
TimeoutInit ==
  /\ ClientStart /\ LgetStart /\ NormStart /\ PipeStart /\ HookStart /\ CloneStart /\ InitConnStart
  /\ ReaderStart /\ OptionsStart
  /\ tcmd \in {[set |-> FALSE, d |-> 0]} \cup
              {[set |-> TRUE, d |-> d] : d \in 0..MaxTimeout}
  /\ tread \in 0..MaxTimeout
  /\ tpc = "new"
  /\ tout = 0
  /\ tdl = [set |-> FALSE, d |-> 0]

TimeoutNext ==
  \/ CmdTimeout
  \/ SetReadDeadline

TimeoutSpec == TimeoutInit /\ [][TimeoutNext]_vars

(***************************************************************************)
(* options.go: Options.init on the caller's *Options, as NewClient calls   *)
(* it (skytable.go: opt.init() on the pointer it was given).               *)
(***************************************************************************)
normOthers ==
  <<clientVars, pipeVars, hookVars, cloneVars, initVars, readerVars,
    optionVars, timeoutVars,
    lgetVars>>

\* init: opt.ReadTimeout = 3 * time.Second
DefaultReadTimeout == 3
\* init: opt.MinRetryBackoff = 8 * time.Millisecond
DefaultMinRetryBackoff == 8
\* init: opt.MaxRetryBackoff = 512 * time.Millisecond
DefaultMaxRetryBackoff == 512

\* init's switch on a duration: case -1: 0; case 0: the default
initDuration(v, dflt) ==
  IF v = -1 THEN 0
  ELSE IF v = 0 THEN dflt
  ELSE v

\* init: if opt.PoolTimeout == 0 { opt.PoolTimeout = opt.ReadTimeout + time.Second }
initPoolTimeout(v, readTimeout) == IF v = 0 THEN readTimeout + 1 ELSE v

\* Options.init with the ReadTimeout rt it has just normalised
optionsInitWith(o, rt) ==
  [MaxRetries |-> initMaxRetries(o.MaxRetries),
   ReadTimeout |-> rt,
   WriteTimeout |-> initDuration(o.WriteTimeout, rt),
   PoolTimeout |-> initPoolTimeout(o.PoolTimeout, rt),
   MinRetryBackoff |-> initDuration(o.MinRetryBackoff, DefaultMinRetryBackoff),
   MaxRetryBackoff |-> initDuration(o.MaxRetryBackoff, DefaultMaxRetryBackoff)]

\* Options.init: the fields it normalises by value
optionsInit(o) ==
  optionsInitWith(o, initDuration(o.ReadTimeout, DefaultReadTimeout))

\* NewClient(opt) with an Options value no client was made of
NewClientFirst ==
  /\ ninits = 0
  /\ nopt' = optionsInit(nopt)
  /\ nfirst' = optionsInit(nopt)
  /\ ninits' = 1
  /\ UNCHANGED normOthers

\* NewClient(opt) with the pointer an earlier NewClient was given
NewClientAgain ==
  /\ ninits >= 1
  /\ ninits < MaxNewClients
  /\ nopt' = optionsInit(nopt)
  /\ ninits' = ninits + 1
  /\ UNCHANGED nfirst
  /\ UNCHANGED normOthers

\* what a caller may configure: off (-1), default (0), a value of their own
NormInit ==
  /\ ClientStart /\ LgetStart /\ PipeStart /\ HookStart /\ CloneStart /\ InitConnStart
  /\ ReaderStart /\ OptionsStart /\ TimeoutStart
  /\ nopt \in [MaxRetries : {-1, 0, 2}, ReadTimeout : {-1, 0, 5},
               WriteTimeout : {-1, 0, 7}, PoolTimeout : {0, 4},
               MinRetryBackoff : {-1, 0, 1}, MaxRetryBackoff : {-1, 0, 2}]
  /\ nfirst = ZeroOptions
  /\ ninits = 0

NormNext ==
  \/ NewClientFirst
  \/ NewClientAgain

NormSpec == NormInit /\ [][NormNext]_vars

(***************************************************************************)
(* commands.go: cmdable.Lget, the building of its argument list.  A slice  *)
(* is its backing array (as long as the capacity) and its length; indices  *)
(* count from 0 as in the source.                                          *)
(***************************************************************************)
lgetOthers ==
  <<clientVars, pipeVars, hookVars, cloneVars, initVars, readerVars,
    optionVars, timeoutVars, normVars>>

\* make([]interface{}, n, c): n zero elements, room for c
makeSlice(n, c) == [arr |-> [i \in 1..c |-> ""], len |-> n]

\* the check of sl[i]: 0 <= i < len(sl), else the runtime panics
indexInRange(sl, i) == 0 <= i /\ i < sl.len

\* sl[i] = v
setIndex(sl, i, v) == [sl EXCEPT !.arr[i + 1] = v]

\* the elements of a slice
sliceElems(sl) == SubSeq(sl.arr, 1, sl.len)

\* append(sl, vs...): the elements of the result
appendElems(sl, vs) == sliceElems(sl) \o vs

\* the runtime panicked while the arguments were built
LgetPanic == [panicked |-> TRUE, args |-> <<>>, processed |-> FALSE]

\* args = append(args, subActions...); cmd := NewCmd(ctx, args...); c(ctx, cmd)
lgetProcessed(sl, subs) ==
  [panicked |-> FALSE, args |-> appendElems(sl, subs), processed |-> TRUE]

\* args[1] = key, and what follows it
lgetWithName(sl, key, subs) ==
  IF indexInRange(sl, 1)
  THEN lgetProcessed(setIndex(sl, 1, key), subs)
  ELSE LgetPanic

\* args[0] = "LGET", and what follows it
lgetOnSlice(sl, key, subs) ==
  IF indexInRange(sl, 0)
  THEN lgetWithName(setIndex(sl, 0, "LGET"), key, subs)
  ELSE LgetPanic

\* cmdable.Lget(ctx, key, subActions...)
Lget(key, subs) == lgetOnSlice(makeSlice(1, 2 + Len(subs)), key, subs)

\* Lget is called and returns, or panics
LgetCall ==
  /\ lpc = "new"
  /\ lres' = Lget(lkey, lsubs)
  /\ lpc' = "done"
  /\ UNCHANGED <<lkey, lsubs>>
  /\ UNCHANGED lgetOthers

\* the sub-actions a caller passes
SubActions == {"len", "first", "limit"}

\* sequences over S of at most n elements
SeqsUpTo(S, n) == UNION {[1..k -> S] : k \in 0..n}

\* any key, any sub-actions
LgetInit ==
  /\ ClientStart /\ PipeStart /\ HookStart /\ CloneStart /\ InitConnStart
  /\ ReaderStart /\ OptionsStart /\ TimeoutStart /\ NormStart
  /\ lkey \in {"k1", "k2", "k3"}
  /\ lsubs \in SeqsUpTo(SubActions, MaxSubActions)
  /\ lpc = "new"
  /\ lres = [panicked |-> FALSE, args |-> <<>>, processed |-> FALSE]

LgetNext == LgetCall

LgetSpec == LgetInit /\ [][LgetNext]_vars

\* ---------------------------------------------------------------------------
\* Properties of the single-command path (baseClient.process / _process)
\* ---------------------------------------------------------------------------

\* Errors of the network itself that are not timeouts.
NonTimeoutNetErrs == {"EOF", "UnexpectedEOF", "netErr"}

\* Errors of the network itself, timeouts included.
NetErrs == NonTimeoutNetErrs \cup {"timeoutErr"}

\* The two errors of a finished context.
CtxErrs == {"Canceled", "DeadlineExceeded"}

\* The attempt that ran last has ended and the loop is about to go on.
Retrying == pc = "loop" /\ nAttempts > 0

\* The release that ended the last attempt, if it had a connection.
LastRel == rel[Len(rel)]

\* C1: process makes at most MaxRetries+1 attempts (MaxRetries as normalised by
\* Options.init); it returns nil at the first attempt that succeeds, returns at
\* once the error of the first attempt whose error is not retryable, and, when
\* every attempt fails with a retryable error, returns the last attempt's error
\* after exactly MaxRetries+1 attempts.
C1_ProcessAttempts ==
  mode = "single" =>
    /\ nAttempts <= opt.MaxRetries + 1
    /\ Retrying => aerr \in NetErrs
    /\ pc = "done" =>
         /\ nAttempts >= 1
         /\ ret = aerr
         /\ cmds[1].err = aerr
         /\ aerr \in NetErrs => nAttempts = opt.MaxRetries + 1

\* All attempts were used up on retryable errors and the last error came back.
C1_Witness ==
  /\ mode = "single" /\ pc = "done"
  /\ opt.MaxRetries >= 1
  /\ nAttempts = opt.MaxRetries + 1
  /\ ret = "EOF" /\ aerr = "EOF"

\* C2: when an attempt on a pooled connection fails with a retryable network
\* error and a retry remains, the failing connection is out of the pool before
\* the next attempt, the next attempt runs on another connection, and a
\* successful next attempt leaves the command without error.
C2_RetryOnOtherConn ==
  mode = "single" =>
    /\ ( /\ attempt > 0
         /\ pc \in {"sleep", "getConn", "run", "waitWorker", "release"}
         /\ prevCn # 0
         /\ prevErr \in NetErrs )
       => /\ prevCn \notin live
          /\ \A i \in 1..Len(idle) : idle[i] # prevCn
          /\ cn # prevCn
    /\ (pc = "done" /\ nAttempts > 1 /\ aerr = NIL)
       => (ret = NIL /\ cmds[1].err = NIL)

\* The retry after a timeout on a pooled connection has finished its reply on
\* another connection.
C2_Witness ==
  /\ mode = "single" /\ pc = "run" /\ attempt = 1
  /\ prevCn # 0 /\ prevErr = "timeoutErr"
  /\ cn # 0 /\ cn # prevCn
  /\ wpc = "fin" /\ werr = NIL

\* C3: an attempt that ends with a typed server error or with the context's
\* Canceled / DeadlineExceeded is never retried; an attempt that ends with EOF,
\* unexpected EOF or a network error that is not a timeout is retried as long
\* as attempts remain.
C3_RetryClassification ==
  mode = "single" =>
    /\ Retrying => aerr \notin (SkytableErrors \cup CtxErrs)
    /\ (pc = "done" /\ aerr \in NonTimeoutNetErrs) => nAttempts = opt.MaxRetries + 1

\* A typed server error ended the call at its first attempt although retries
\* were left.
C3_Witness ==
  /\ mode = "single" /\ pc = "done"
  /\ aerr = "Nil" /\ ret = "Nil"
  /\ nAttempts = 1 /\ opt.MaxRetries >= 1

\* C4 as stated: on the single-command path a timeout is retried only if the
\* write of the attempt succeeded and no part of the reply was consumed.
C4_TimeoutRetriedOnlyAfterCleanWrite ==
  (mode = "single" /\ Retrying /\ aerr = "timeoutErr") => (writeOK /\ ~consumed)

\* C4: on the single-command path retryTimeout is 1 in every attempt, so an
\* attempt that ends in a timeout error (other than the context's deadline) is
\* retried whenever an attempt remains, whether or not its write succeeded and
\* whether or not part of the reply was consumed.
C4_TimeoutAlwaysRetried ==
  mode = "single" =>
    /\ retryTimeout = 1
    /\ (pc = "done" /\ aerr = "timeoutErr") => nAttempts = opt.MaxRetries + 1

\* A read timeout that struck after part of the reply was consumed is retried.
C4_Witness ==
  /\ mode = "single" /\ Retrying /\ attempt <= opt.MaxRetries
  /\ aerr = "timeoutErr" /\ writeOK /\ consumed

\* C5: releaseConn puts the attempt's connection back (Put) when the attempt's
\* error is nil or a typed server error, and removes it (Remove) when the error
\* is EOF, a network error (timeouts included) or the context's Canceled /
\* DeadlineExceeded.
C5_ReleaseByError ==
  \A i \in 1..Len(rel) :
    rel[i].by = "releaseConn" =>
      /\ rel[i].err \in ({NIL} \cup SkytableErrors) => rel[i].how = "Put"
      /\ rel[i].err \in (NetErrs \cup CtxErrs) => rel[i].how = "Remove"
      /\ rel[i].how = "Put" => rel[i].cn \in live
      /\ rel[i].how = "Remove" => rel[i].cn \notin live

\* A connection whose attempt ended with a typed server error is back in the
\* pool.
C5_Witness ==
  /\ rel # <<>>
  /\ LastRel.by = "releaseConn" /\ LastRel.err = "Nil" /\ LastRel.how = "Put"
  /\ \E i \in 1..Len(idle) : idle[i] = LastRel.cn

\* C6 as stated: a command whose context is cancelled before processing starts
\* touches no network and ends with the error "context canceled".
C6_CancelledEndsCanceled ==
  (mode = "single" /\ startDone /\ ctxState = "canceled") =>
    /\ ~netTouched
    /\ pc = "done" => cmds[1].err = "Canceled"

\* C6: a command whose context is cancelled before processing starts never
\* gets a connection, dials nothing, writes nothing and reads nothing; its
\* error is "context canceled" unless a configured Limiter rejected the
\* attempt (then the Limiter's error) or the client was closed (then the
\* pool's closed error).
C6_CancelledNeverTouchesNetwork ==
  (mode = "single" /\ startDone /\ ctxState = "canceled") =>
    /\ ~netTouched
    /\ cn = 0 /\ rel = <<>> /\ ~writeOK /\ ~consumed
    /\ pc = "done" =>
         /\ cmds[1].err = (IF limRejected THEN "limiterErr"
                           ELSE IF closed THEN "ErrClosed"
                           ELSE "Canceled")
         /\ ret = cmds[1].err

\* The cancelled command came back with "context canceled".
C6_Witness ==
  /\ mode = "single" /\ startDone /\ ctxState = "canceled"
  /\ pc = "done" /\ cmds[1].err = "Canceled" /\ ret = "Canceled"
  /\ ~netTouched

CountMatches == cnt = Len(cmds)

\* Errors that come from moving bytes, not from the server's answer.
TransportErrs == DialErrs \cup WriteErrs \cup ReadErrs

\* The first error in queue order, nil if there is none.
FirstFailed(cs) ==
  IF \A i \in 1..Len(cs) : cs[i].err = NIL THEN NIL
  ELSE LET k == CHOOSE k \in 1..Len(cs) :
                  /\ cs[k].err # NIL
                  /\ \A j \in 1..(k - 1) : cs[j].err = NIL
       IN cs[k].err

\* C8: with a metaframe count equal to the queue's length, reply elements are
\* consumed in request order and the i-th element goes to the i-th command; a
\* typed server error in element i is stored on command i alone and does not
\* stop the reading of the elements after it.
C8_RepliesInRequestOrder ==
  (mode = "pipe" /\ pc \in {"run", "waitWorker", "release"} /\ CountMatches) =>
    /\ Len(got) = rdPos
    /\ Len(got) <= Len(cmds)
    /\ \A i \in 1..Len(got) :
         /\ cmds[i].val = i
         /\ cmds[i].err = readReply(got[i])
    /\ nAttempts = 1 =>
         \A i \in (Len(got) + 1)..Len(cmds) :
           /\ cmds[i].val = 0
           /\ cmds[i].err \in ({NIL} \cup ReadErrs)
    /\ (wpc = "fin" /\ Len(got) < Len(cmds)) => werr \in ReadErrs \cup {"unknownStatus"}
    /\ (wpc = "fin" /\ Len(got) = Len(cmds) /\ readReply(got[Len(got)]) # "unknownStatus")
         => werr = NIL

\* Two replies were read: the first a typed server error, the second a value.
C8_Witness ==
  /\ mode = "pipe" /\ pc = "release" /\ CountMatches
  /\ Len(cmds) = 2 /\ Len(got) = 2
  /\ got[1].kind = "status" /\ cmds[1].err = "Nil"
  /\ cmds[2].err = NIL /\ cmds[2].val = 2
  /\ aerr = NIL

\* C9: when a batch does not succeed, because the metaframe count differs from
\* the number of commands or because a transport error ends the last attempt,
\* every command of the batch has a non-nil error after Exec, those whose
\* replies had been read successfully included.
C9_FailedBatchMarksAll ==
  ( /\ mode = "pipe" /\ pc = "done" /\ nAttempts > 0
    /\ \/ (cnt >= 0 /\ ~CountMatches)
       \/ aerr \in TransportErrs )
  => /\ ret # NIL
     /\ Len(retCmds) = Len(cmds)
     /\ \A i \in 1..Len(retCmds) : retCmds[i].err # NIL

\* The first reply was read as a value, then the connection broke; the first
\* command carries an error all the same.
C9_Witness ==
  /\ mode = "pipe" /\ pc = "done"
  /\ aerr = "EOF"
  /\ Len(got) >= 1 /\ got[1].kind = "val"
  /\ Len(retCmds) = 2 /\ retCmds[1].err # NIL /\ retCmds[2].err # NIL

\* C10: Exec returns all the commands that were queued, in queue order,
\* together with the error of the first failed command in queue order, or nil
\* when no command failed.
C10_ExecResult ==
  (mode = "pipe" /\ pc = "done") =>
    /\ Len(retCmds) = Len(qAtExec)
    /\ \A i \in 1..Len(retCmds) : retCmds[i].id = qAtExec[i].id
    /\ ret = FirstFailed(retCmds)
    /\ queue = <<>>

\* Two commands came back in order; the first succeeded, the second failed and
\* Exec returned the second's error.
C10_Witness ==
  /\ mode = "pipe" /\ pc = "done"
  /\ Len(retCmds) = 2 /\ retCmds[1].id = 1 /\ retCmds[2].id = 2
  /\ retCmds[1].err = NIL /\ retCmds[2].err = "Nil"
  /\ ret = "Nil"

\* C11: after Exec returns, with the batch successful or failed, the
\* pipeline's queue is empty (Len() = 0); Exec on an empty queue returns
\* (nil, nil) without running the exec callback or getting a connection.
C11_ExecClearsQueue ==
  mode = "pipe" =>
    /\ pc # "idle" => PipelineLen(queue) = 0
    /\ (pc = "done" /\ qAtExec = <<>>) =>
         /\ retCmds = <<>> /\ ret = NIL
         /\ nAttempts = 0 /\ cn = 0 /\ rel = <<>> /\ lim = <<>>
         /\ ~netTouched

\* A batch of two commands failed and Exec is over: the queue is empty.
C11_Witness ==
  /\ mode = "pipe" /\ pc = "done"
  /\ Len(qAtExec) = 2 /\ ret # NIL
  /\ PipelineLen(queue) = 0

\* C13 as stated: a pipelined attempt that fails with a retryable transport
\* error is followed by another attempt while attempts remain, so a batch that
\* ends with such an error has made MaxRetries+1 attempts.
C13_PipelineRetriesTransportErrors ==
  (mode = "pipe" /\ pc = "done" /\ aerr \in NetErrs) =>
    nAttempts = opt.MaxRetries + 1

Created == 1..(pnext - 1)

\* the batches that hold command i
BatchesOf(i) == {k \in 1..Len(pbatches) : i \in Range(pbatches[k])}

\* C12: under any interleaving of Process, Do, Discard, Len and Exec from
\* several goroutines on one Pipeline, a queued command is handed to the exec
\* callback in at most one batch, no queued command is lost other than through
\* Discard, and a command queued while an Exec is running is not part of the
\* batch of that Exec.
C12_QueueUnderInterleaving ==
  /\ \A i \in Created :
       /\ Cardinality(BatchesOf(i)) <= 1
       /\ \A k \in BatchesOf(i) :
            Cardinality({j \in 1..Len(pbatches[k]) : pbatches[k][j] = i}) = 1
       /\ BatchesOf(i) # {} => i \notin Range(pq)
  /\ \A i \in Created :
       \/ \E g \in Goroutines : pid[g] = i
       \/ i \in Range(pq)
       \/ i \in pdisc
       \/ BatchesOf(i) # {}
       \/ \E g \in Goroutines : ppc[g] \in {"eClear", "eRun"} /\ i \in Range(ptmp[g])
  /\ \A g \in Goroutines :
       ppc[g] \in {"eClear", "eRun", "eRet"} =>
         \A i \in Range(ptmp[g]) : g \notin pwhen[i]

\* An Exec is running its batch while another goroutine, which began to queue
\* a command meanwhile, waits for the mutex.
C12_Witness ==
  \E g, h \in Goroutines :
    /\ ppc[g] = "eRet" /\ pbatches = <<ptmp[g]>> /\ ptmp[g] # <<>>
    /\ ppc[h] = "pLock" /\ pid[h] # 0 /\ g \in pwhen[pid[h]]

\* ---------------------------------------------------------------------------
\* Properties of the hooks
\* ---------------------------------------------------------------------------

\* the calls of one kind in the trace, in the order they were made
EventsOf(kind) == SelectSeq(htrace, LAMBDA x : x.ev = kind)

\* every BeforeProcess called so far returned nil
AllBeforeNil == \A k \in 1..Len(htrace) : htrace[k].ev = "Before" => htrace[k].res = NIL

\* the position in the trace of the BeforeProcess that returned an error, 0
\* when there is none
FailedBefore ==
  IF AllBeforeNil THEN 0
  ELSE CHOOSE k \in 1..Len(htrace) : htrace[k].ev = "Before" /\ htrace[k].res # NIL

\* the positions in the trace of the AfterProcess calls that returned an error
FailedAfters == {k \in 1..Len(htrace) : htrace[k].ev = "After" /\ htrace[k].res # NIL}

\* the largest element of a non-empty set of numbers
MaxOf(S) == CHOOSE x \in S : \A y \in S : y <= x

\* C14: when every hook's BeforeProcess returns nil, Client.Process calls
\* BeforeProcess on h1..hn in registration order, then the inner processing
\* exactly once, then AfterProcess on hn..h1 in reverse order.
C14_HookOrder ==
  (hroute = "client" /\ hpc = "done" /\ AllBeforeNil) =>
    /\ Len(htrace) = 2 * hn + 1
    /\ \A i \in 1..hn :
         /\ htrace[i].ev = "Before" /\ htrace[i].hook = i
         /\ htrace[hn + 1 + i].ev = "After" /\ htrace[hn + 1 + i].hook = hn + 1 - i
    /\ htrace[hn + 1].ev = "Inner"
    /\ Len(EventsOf("Inner")) = 1

\* Two hooks, all calls made: Before 1, Before 2, inner, After 2, After 1.
C14_Witness ==
  /\ hroute = "client" /\ hpc = "done" /\ hn = 2 /\ AllBeforeNil
  /\ Len(htrace) = 5
  /\ htrace[4].ev = "After" /\ htrace[4].hook = 2
  /\ htrace[5].ev = "After" /\ htrace[5].hook = 1

\* C15: when the BeforeProcess of hook k returns an error, the BeforeProcess
\* of the later hooks and the inner processing are skipped, AfterProcess runs
\* for the hooks entered so far (k included) and for no other, in reverse
\* registration order, and Process returns a non-nil error.
C15_BeforeErrorSkips ==
  (hroute = "client" /\ hpc = "done" /\ ~AllBeforeNil) =>
    LET k == FailedBefore IN
    /\ \A i \in 1..k : htrace[i].ev = "Before" /\ htrace[i].hook = i
    /\ Len(htrace) = 2 * k
    /\ \A i \in 1..k : htrace[k + i].ev = "After" /\ htrace[k + i].hook = k + 1 - i
    /\ EventsOf("Inner") = <<>>
    /\ hret # NIL
    /\ hcmdErr # NIL

\* The first of two hooks failed in BeforeProcess: only its own AfterProcess
\* ran.
C15_Witness ==
  /\ hroute = "client" /\ hpc = "done" /\ hn = 2
  /\ Len(htrace) = 2
  /\ htrace[1].ev = "Before" /\ htrace[1].res # NIL
  /\ htrace[2].ev = "After" /\ htrace[2].hook = 1
  /\ hret = "before1"

\* C16: when one or more AfterProcess hooks return an error, Process returns
\* the error of the last of them to run, and the command's Err() is that
\* error, whatever the command itself had produced.
C16_AfterErrorWins ==
  (hroute = "client" /\ hpc = "done" /\ FailedAfters # {}) =>
    /\ hret = htrace[MaxOf(FailedAfters)].res
    /\ hcmdErr = hret

\* The command failed by itself, both AfterProcess hooks failed too, and the
\* error of the hook registered first, which ran last, came back.
C16_Witness ==
  /\ hroute = "client" /\ hpc = "done" /\ hn = 2
  /\ Cardinality(FailedAfters) = 2
  /\ EventsOf("Inner") # <<>> /\ EventsOf("Inner")[1].res = "EOF"
  /\ hret = "after1" /\ hcmdErr = "after1"

\* C17 as stated: a command that a client with registered hooks sends to the
\* server, through Client.Process, through a Conn from Client.Conn() or as
\* AUTH / USE of the initialisation, has passed through the client's hooks.
C17_EveryCommandHooked ==
  (hn >= 1 /\ EventsOf("Inner") # <<>>) =>
    /\ Len(EventsOf("Before")) = hn
    /\ htrace[1].ev = "Before"

\* C18: once a clone exists, AddHook on the clone never changes the hooks the
\* parent or another clone sees, and AddHook on the parent never changes the
\* hooks an existing clone sees: every client sees the hooks it had when it
\* was made, followed by the hooks added to itself.
C18_CloneIsolation ==
  \A c \in 1..Len(cl) : HooksSeen(c) = cview[c]

\* A client and a clone of it made at three hooks, when the array had room for
\* a fourth, have each added a hook since: they agree on the first three
\* hooks, differ on the fourth and no longer share an array.
C18_Witness ==
  \E c, d \in 1..Len(cl) :
    /\ c < d
    /\ Len(cview[d]) >= 3
    /\ Len(cview[c]) >= 4
    /\ cview[c] # cview[d]
    /\ SubSeq(cview[c], 1, 3) = SubSeq(cview[d], 1, 3)
    /\ cl[c].arr # cl[d].arr
    /\ Len(cview[d]) = 4

\* the initialisation steps the options and the credentials in use call for
ExpectedInit(k) ==
  (IF icn[k].user # "" /\ icn[k].token # "" THEN <<"AUTH">> ELSE <<>>)
  \o (IF iopt.Table # "" THEN <<"USE">> ELSE <<>>)
  \o (IF iopt.OnConnect THEN <<"OnConnect">> ELSE <<>>)

\* C20: a connection is initialised exactly once, on its first checkout and
\* before the first user command is written to it: AUTH when username and
\* token are both non-empty, then USE when a table is configured, then
\* OnConnect; a connection whose Inited flag is set is not initialised again.
C20_InitOnce ==
  \A k \in Conns :
    LET exp == ExpectedInit(k)
        log == ilog[k]
    IN /\ iinits[k] <= 1
       /\ icn[k].Inited <=> iinits[k] = 1
       /\ (icount[k] >= 1 /\ icn[k].at # "get") => iinits[k] = 1
       /\ \A i \in 1..Len(log) :
            IF i <= Len(exp) THEN log[i] = exp[i] ELSE log[i] = "cmd"
       /\ icn[k].at = "ready" => Len(log) >= Len(exp)
       /\ icn[k].at \in {"auth", "use", "onconnect", "initfail"} =>
            (icount[k] = 1 /\ Len(log) <= Len(exp))

\* A connection was initialised with all three steps, carried a user command,
\* was checked out again and carried a second one.
C20_Witness ==
  \E k \in Conns :
    /\ ilog[k] = <<"AUTH", "USE", "OnConnect", "cmd", "cmd">>
    /\ icount[k] = 2
    /\ iinits[k] = 1

\* connection k failed a step of its initialisation
InitFailed(k) == icn[k].err # NIL

\* C21 as stated: when an init step fails, the connection is removed, no user
\* command is written to it, and the attempt fails with the init error itself.
C21_InitFailureAsStated ==
  \A k \in Conns :
    (InitFailed(k) /\ icn[k].at = "removed") => icn[k].res = icn[k].err

\* C21: when an init step (AUTH, USE or OnConnect) fails, the connection is
\* removed from the pool and never handed out again, no user command is
\* written to it, and the attempt fails with the error the init error wraps
\* or, when it wraps none, with the init error itself.
C21_InitFailureRemoves ==
  \A k \in Conns :
    InitFailed(k) =>
      /\ icn[k].at \in {"initfail", "removed"}
      /\ icount[k] = 1
      /\ \A i \in 1..Len(ilog[k]) : ilog[k][i] # "cmd"
      /\ icn[k].at = "removed" =>
           /\ icn[k].res # NIL
           /\ icn[k].res =
                (IF icn[k].err = "wrapped(EOF)" THEN "EOF" ELSE icn[k].err)

\* USE failed with a wrapping error after AUTH went through; the connection
\* is removed and the attempt got the wrapped error.
C21_Witness ==
  \E k \in Conns :
    /\ ilog[k] = <<"AUTH", "USE">>
    /\ icn[k].at = "removed"
    /\ icn[k].err = "wrapped(EOF)"
    /\ icn[k].res = "EOF"

\* ---------------------------------------------------------------------------
\* Properties of the reply reader
\* ---------------------------------------------------------------------------
\* the first read of the stream was op, in front of an element of kind k
FirstRead(op, k) ==
  /\ rhist # <<>>
  /\ rhist[1].op = op
  /\ rin[1].k = k

\* the stream as it is when exactly the first element has been consumed
AfterFirst == EncodeAll(Tail(rin))

\* C22: a status element with decimal code c parses to no error for c = 0, to
\* the Nil sentinel for c = 1, to the typed error of the status table for
\* 2 <= c <= 11, and for c >= 12 to an "unknown status" error that is none of
\* the typed server errors; the element is consumed whole.
C22_StatusCodes ==
  \A op \in {"ReadReply", "ReadStatus"} :
    FirstRead(op, "status") =>
      LET c == rin[1].n
          e == rhist[1].err
      IN /\ c = 0 => e = NIL
         /\ c = 1 => e = "Nil"
         /\ (2 <= c /\ c <= 11) => e = CodeToErrorMap[c]
         /\ c >= 12 => (e = "unknownStatus" /\ e \notin SkytableErrors)
         /\ Len(rhist) = 1 => rrest = AfterFirst

\* ReadReply has parsed a status 12 into the unknown-status error.
C22_Witness ==
  /\ FirstRead("ReadReply", "status")
  /\ rin[1].n = 12
  /\ rhist[1].err = "unknownStatus"

\* the slot an array element is to end up in
ExpectedSlot(e) ==
  IF e.k = "str" THEN StrVal(e.s)
  ELSE IF e.n = 0 THEN IntVal(0)
  ELSE IF e.n = 1 THEN NilVal
  ELSE ErrVal(CodeToErrorMap[e.n])

\* the element is a status whose code has no typed error
Untyped(e) == e.k = "status" /\ e.n > MaxTypedCode

\* C23: parsing an array of <count> elements stores an element that is a
\* typed status error in its slot and goes on, turns a Nil status into the
\* nil sentinel in its slot, and yields exactly <count> slots; only an error
\* that is not typed aborts the array.
C23_ArraySlots ==
  \A op \in {"ReadReply", "ReadSlice"} :
    FirstRead(op, "arr") =>
      LET sub == rin[1].sub
          r == rhist[1]
      IN IF \E i \in 1..Len(sub) : Untyped(sub[i])
         THEN r.err = "unknownStatus"
         ELSE /\ r.err = NIL
              /\ r.val.t = "slice"
              /\ Len(r.val.a) = Len(sub)
              /\ \A i \in 1..Len(sub) : r.val.a[i] = ExpectedSlot(sub[i])
              /\ Len(rhist) = 1 => rrest = AfterFirst

\* ReadReply has parsed an array of a typed status error and a Nil status
\* into a slice of that error and nil.
C23_Witness ==
  /\ FirstRead("ReadReply", "arr")
  /\ Len(rin[1].sub) = 2
  /\ rin[1].sub[1].k = "status" /\ rin[1].sub[1].n = 3
  /\ rin[1].sub[2].k = "status" /\ rin[1].sub[2].n = 1
  /\ rhist[1].err = NIL
  /\ rhist[1].val.a = <<ErrVal("ActionError"), NilVal>>

\* C24: an integer element :<len>\n<decimal>\n parsed by ReadReply or ReadInt
\* gives the integer that <decimal> denotes and no error, whatever the
\* payload, single digits included.
C24_IntReply ==
  \A op \in {"ReadReply", "ReadInt"} :
    FirstRead(op, "int") =>
      /\ rhist[1].err = NIL
      /\ rhist[1].val = IntVal(rin[1].n)

\* C25: a string (+) or blob (?) element read by ReadString, ReadBytes or
\* ReadReply gives exactly the <len> payload bytes after the header, also
\* when they hold \n or \r\n, and leaves the reader at the next element.
C25_PayloadBytes ==
  \A k \in {"str", "blob"} :
    \A op \in {"ReadString", "ReadReply"} \cup
              (IF k = "blob" THEN {"ReadBytes"} ELSE {}) :
      FirstRead(op, k) =>
        /\ rhist[1].err = NIL
        /\ rhist[1].val.s = rin[1].s
        /\ Len(rhist) = 1 => rrest = AfterFirst

C27_MaxRetriesNormalised ==
  /\ opc # "new" =>
       /\ oraw = 0 => omax = 3
       /\ oraw = -1 => omax = 0
       /\ oraw \notin {0, -1} => omax = oraw
  /\ (opc = "done" /\ oraw = -1) => Len(otried) = 1

\* A client configured with MaxRetries = -1 has made its one attempt, which
\* failed with an error that is retried while attempts remain, and returned.
C27_Witness ==
  /\ oraw = -1
  /\ opc = "done"
  /\ otried = <<"EOF">>

\* ---------------------------------------------------------------------------
\* More properties of the hooks
\* ---------------------------------------------------------------------------
\* C28 as stated: a command's Err is set exactly once per Process call.
C28_ErrSetOnce ==
  hpc = "done" => Len(hsets) = 1

\* C28: in a Process call a command's Err is set once by the BeforeProcess
\* that failed or else by the command's execution, and once more by every
\* AfterProcess that fails; the value set last is the one the command keeps
\* and Process returns.
C28_ErrSetLastWins ==
  hpc = "done" =>
    /\ Len(hsets) = 1 + Cardinality(FailedAfters)
    /\ hcmdErr = hsets[Len(hsets)]
    /\ hret = hcmdErr

\* The command ran without error, an AfterProcess failed: Err was set twice
\* and holds the hook's error.
C28_Witness ==
  /\ hpc = "done"
  /\ hsets = <<NIL, "after1">>
  /\ hcmdErr = "after1"

\* ---------------------------------------------------------------------------
\* Properties of the read timeout
\* ---------------------------------------------------------------------------
\* the larger of two numbers
Larger(a, b) == IF a >= b THEN a ELSE b

\* C29 as stated: for a single command the read deadline is set from
\* max(cmd.readTimeout, ReadTimeout) + 10s of grace.
C29_DeadlineMaxPlusGrace ==
  tpc = "deadline" =>
    /\ tdl.set
    /\ tdl.d = Larger(IF tcmd.set THEN tcmd.d ELSE 0, tread) + 10

\* C29: for a single command the read deadline is set from cmd.readTimeout +
\* 10s of grace when the command has a read timeout other than 0, from
\* ReadTimeout alone when it has none, and there is no deadline when the
\* timeout in force is 0.
C29_DeadlineFromCmdTimeout ==
  tpc = "deadline" =>
    /\ (tcmd.set /\ tcmd.d # 0) => (tdl.set /\ tdl.d = tcmd.d + 10)
    /\ (tcmd.set /\ tcmd.d = 0) => ~tdl.set
    /\ (~tcmd.set /\ tread # 0) => (tdl.set /\ tdl.d = tread)
    /\ (~tcmd.set /\ tread = 0) => ~tdl.set

\* A command with a read timeout of 1s under a ReadTimeout of 3s got a
\* deadline 11s away.
C29_Witness ==
  /\ tpc = "deadline"
  /\ tcmd = [set |-> TRUE, d |-> 1]
  /\ tread = 3
  /\ tdl = [set |-> TRUE, d |-> 11]

\* ---------------------------------------------------------------------------
\* Properties of a closed client
\* ---------------------------------------------------------------------------
\* Close is a call of its own, so a call that is under way on a closed client
\* started after Close returned.
AfterClose == closed /\ pc # "idle"

\* The call got no connection: none checked out, dialed, released or used.
NothingHandedOut ==
  /\ cn = 0 /\ live = {} /\ idle = <<>> /\ rel = <<>>
  /\ ~netTouched /\ ~writeOK /\ ~consumed

C35_ErrIsReturned ==
  hpc = "done" => hcmdErr = hret

\* Process returned the error of an AfterProcess hook after the command
\* itself had failed with another error, and the command carries the hook's.
C35_Witness ==
  /\ hpc = "done" /\ hroute = "client"
  /\ hret = "after1" /\ hcmdErr = "after1"
  /\ \E i \in 1..Len(htrace) : htrace[i].ev = "Inner" /\ htrace[i].res = "EOF"

\* ---------------------------------------------------------------------------
\* Properties of status errors on the call path
\* ---------------------------------------------------------------------------
\* an error that readStatus made of a completely parsed status element
FromStatus(e) == e # NIL /\ \E c \in StatusCodes : e = readStatus(c)

\* C36 as stated: an error obtained from a completely parsed status element,
\* an unknown code >= 12 included, is treated like a typed server error: the
\* connection is put back into the pool rather than removed and, in a
\* pipeline, the remaining reply elements of the batch are still read.
C36_StatusErrorKeepsConn ==
  /\ \A i \in 1..Len(rel) :
       (rel[i].by = "releaseConn" /\ FromStatus(rel[i].err)) =>
         rel[i].how = "Put"
  /\ (mode = "pipe" /\ wpc = "fin" /\ FromStatus(werr)) => ri = Len(cmds)

\* C37 as stated: when the reply element is a status with code 0 (OK), the
\* typed readers ReadInt, ReadFloat, ReadString, ReadSlice and ReadBytes
\* report no error.
C37_StatusOKNoError ==
  \A op \in {"ReadInt", "ReadFloat", "ReadString", "ReadSlice", "ReadBytes"} :
    (FirstRead(op, "status") /\ rin[1].n = 0) => rhist[1].err = NIL

\* ---------------------------------------------------------------------------
\* Properties of Options.init applied again
\* ---------------------------------------------------------------------------
\* C38 as stated: Options.init is idempotent: normalising an Options value
\* that is already normalised (the same *Options passed to NewClient twice)
\* leaves every field unchanged, in particular MaxRetries, ReadTimeout,
\* WriteTimeout and the retry backoffs.
C38_InitIdempotent ==
  ninits >= 2 => nopt = nfirst

\* ---------------------------------------------------------------------------
\* Properties of Lget
\* ---------------------------------------------------------------------------
\* C39 as stated: Lget(key, subActions...) builds and processes the command
\* LGET <key> <subActions...> for any number of sub-actions, none included,
\* and returns its Cmd without failing while the argument list is built.
C39_LgetBuildsCommand ==
  lpc = "done" =>
    /\ ~lres.panicked
    /\ lres.processed
    /\ lres.args = <<"LGET", lkey>> \o lsubs

\* ---------------------------------------------------------------------------
\* Properties of a connection's way through an attempt
\* ---------------------------------------------------------------------------
\* how often the connection k lies in the idle queue
IdleCount(k) == Cardinality({i \in 1..Len(idle) : idle[i] = k})

\* The attempt that ran last is over.
AttemptOver == pc \in {"loop", "done"} /\ nAttempts > 0

WorkerBusy == wpc \in {"write", "readMeta", "readReply"}

\* C34: a connection is used by at most one caller at a time: when a call
\* with a context is cancelled, the connection is not released, by Put or by
\* Remove, before the worker goroutine that runs the command's write and read
\* has finished; until then the pool hands it to nobody.
C34_ReleaseAfterWorker ==
  /\ WorkerBusy =>
       /\ pc \in {"run", "waitWorker"}
       /\ rel = <<>>
       /\ cn \in live /\ IdleCount(cn) = 0
  /\ pc = "release" => wpc = "fin"
  /\ (tookDone /\ rel # <<>>) => wpc = "fin"

\* The call was cancelled and the connection closed while the worker was
\* reading; the worker has not finished and the connection is still held.
C34_Witness ==
  /\ tookDone /\ pc = "waitWorker" /\ wpc = "readReply"
  /\ cn \in live /\ rel = <<>>

====
